---- MODULE Spec2Model ----
(***************************************************************************)
(* QUBO compilers of the quboin package: build_knapsack,                   *)
(* build_knapsack_with_aux, build_clique_k, build_graph_coloring,          *)
(* build_n_queen and build_min_vertex_cover, and the loader of the         *)
(* knapsack data, load_knapsack_data.                                      *)
(*                                                                         *)
(* A coefficient map (a Python dict keyed by index pairs) is a function    *)
(* whose domain is a set of pairs <<i, j>>.  Python lists are sequences;   *)
(* the element the source writes lst[i] is lst[i + 1] here.  A compiler    *)
(* returns a record [qubo, raised]: the map as it stands when the call     *)
(* ends and the exception that ended it ("none" when it returned).         *)
(***************************************************************************)
EXTENDS Integers, Sequences, FiniteSets, TLC

VARIABLES
    problem,    \* the problem instance handed to a compiler
    call,       \* the compiler that was called, "none" before the call
    args,       \* the scalar arguments of the call (alpha, beta, k, ...)
    qubo,       \* the coefficient map the call built
    offset,     \* the energy offset the caller pairs with the map
    raised,     \* the exception that ended the call, "none" if it returned
    result      \* what a call that builds no coefficient map returned

vars == <<problem, call, args, qubo, offset, raised, result>>

(***************************************************************************)
(* Bounds of the model.                                                    *)
(***************************************************************************)
MaxItems == 2
MaxWeight == 2
MaxProfit == 1
MaxCapacity == 5
MaxAlpha == 2
MaxBeta == 1
MaxNodes == 3
MaxK == 3
MaxColors == 3
MaxColoringVars == 6
MaxGraphAlpha == 3
MaxCliqueBeta == 3

(***************************************************************************)
(* The dict operations the compilers use.                                  *)
(***************************************************************************)
EmptyQubo == [key \in {} |-> 0]

\* qubo[key] = v
Put(q, key, v) == (key :> v) @@ q

Returned(q) == [qubo |-> q, raised |-> "none"]

Raised(q, e) == [qubo |-> q, raised |-> e]

(***************************************************************************)
(* Energy of a coefficient map on a binary assignment, as the solver       *)
(* evaluates it: the sum of qubo[(i, j)] * x_i * x_j over the keys.  The   *)
(* assignment is given by the set x of the indices whose bit is 1.         *)
(***************************************************************************)
RECURSIVE SumOver(_, _)
SumOver(q, keys) ==
    IF keys = {} THEN 0
    ELSE LET key == CHOOSE kk \in keys : TRUE
         IN  q[key] + SumOver(q, keys \ {key})

Energy(q, x) ==
    SumOver(q, {key \in DOMAIN q : key[1] \in x /\ key[2] \in x})

(***************************************************************************)
(* knapsack.py: build_knapsack                                             *)
(***************************************************************************)
\* mutant of knapsack_j_loop: the factor 2 of the cross term dropped
RECURSIVE knapsack_j_loop_single(_, _, _, _, _)
knapsack_j_loop_single(q, weights, alpha, i, j) ==
    IF j >= Len(weights) THEN q
    ELSE knapsack_j_loop_single(
             Put(q, <<i, j>>, alpha * weights[i + 1] * weights[j + 1]),
             weights, alpha, i, j + 1)

\* for j in range(i+1, n): qubo[(i, j)] = 2 * alpha * weights[i] * weights[j]
RECURSIVE knapsack_j_loop(_, _, _, _, _)
knapsack_j_loop(q, weights, alpha, i, j) ==
    IF j >= Len(weights) THEN q
    ELSE knapsack_j_loop(
             Put(q, <<i, j>>, 2 * alpha * weights[i + 1] * weights[j + 1]),
             weights, alpha, i, j + 1)

\* for i in range(n): the linear term, then the j loop.  profits[i] raises
\* IndexError when the profits list is shorter than the weights list.
RECURSIVE knapsack_i_loop(_, _, _, _, _, _, _)
knapsack_i_loop(q, weights, profits, capacity, alpha, beta, i) ==
    IF i >= Len(weights) THEN Returned(q)
    ELSE IF i >= Len(profits) THEN Raised(q, "IndexError")
    ELSE LET q1 == Put(q, <<i, i>>,
                       - beta * profits[i + 1]
                       + alpha * weights[i + 1] ^ 2
                       - 2 * alpha * capacity * weights[i + 1])
             q2 == knapsack_j_loop(q1, weights, alpha, i, i + 1)
         IN  knapsack_i_loop(q2, weights, profits, capacity, alpha, beta, i + 1)

build_knapsack(weights, profits, capacity, alpha, beta) ==
    knapsack_i_loop(EmptyQubo, weights, profits, capacity, alpha, beta, 0)

(***************************************************************************)
(* knapsack.py: build_knapsack_with_aux                                    *)
(***************************************************************************)
\* int(log2(capacity)) for capacity >= 1: the floor of the binary
\* logarithm (the floating-point logarithm is exact on the capacities of
\* this model).
RECURSIVE floor_log2(_)
floor_log2(capacity) ==
    IF capacity < 2 THEN 0 ELSE 1 + floor_log2(capacity \div 2)

\* mutant of aux_m: the bit length of the capacity instead of floor(log2)
aux_m_bit_length(capacity) == floor_log2(capacity) + 1

\* m = int(log2(capacity))
aux_m(capacity) == floor_log2(capacity)

\* mutant of aux_remainder: capacity - 2**m, the "- 1" dropped
aux_remainder_short(capacity) == capacity - 2 ^ floor_log2(capacity)

\* remainder = capacity - (2**m - 1)
aux_remainder(capacity) == capacity - (2 ^ aux_m(capacity) - 1)

\* mutant of aux_item_item_loop: the factor 2 of the cross term dropped
RECURSIVE aux_item_item_loop_single(_, _, _, _, _)
aux_item_item_loop_single(q, weights, alpha, i, j) ==
    IF j >= Len(weights) THEN q
    ELSE aux_item_item_loop_single(
             Put(q, <<i, j>>, alpha * weights[i + 1] * weights[j + 1]),
             weights, alpha, i, j + 1)

\* for j in range(i+1, n): qubo[(i, j)] = 2 * alpha * weights[i] * weights[j]
RECURSIVE aux_item_item_loop(_, _, _, _, _)
aux_item_item_loop(q, weights, alpha, i, j) ==
    IF j >= Len(weights) THEN q
    ELSE aux_item_item_loop(
             Put(q, <<i, j>>, 2 * alpha * weights[i + 1] * weights[j + 1]),
             weights, alpha, i, j + 1)

\* mutant of aux_item_bit_loop: 2 ** k instead of 2 ** (k + 1)
RECURSIVE aux_item_bit_loop_power_k(_, _, _, _, _, _)
aux_item_bit_loop_power_k(q, weights, alpha, m, i, k) ==
    IF k >= m THEN q
    ELSE aux_item_bit_loop_power_k(
             Put(q, <<i, k + Len(weights)>>,
                 - alpha * weights[i + 1] * (2 ^ k)),
             weights, alpha, m, i, k + 1)

\* for k in range(m): qubo[(i, k + n)] = -alpha * weights[i] * (2 ** (k + 1))
RECURSIVE aux_item_bit_loop(_, _, _, _, _, _)
aux_item_bit_loop(q, weights, alpha, m, i, k) ==
    IF k >= m THEN q
    ELSE aux_item_bit_loop(
             Put(q, <<i, k + Len(weights)>>,
                 - alpha * weights[i + 1] * (2 ^ (k + 1))),
             weights, alpha, m, i, k + 1)

\* for i in range(n): the items' coefficients
RECURSIVE aux_items_loop(_, _, _, _, _, _, _, _)
aux_items_loop(q, weights, profits, alpha, beta, m, remainder, i) ==
    IF i >= Len(weights) THEN Returned(q)
    ELSE IF i >= Len(profits) THEN Raised(q, "IndexError")
    ELSE LET n  == Len(weights)
             q1 == Put(q, <<i, i>>,
                       - beta * profits[i + 1] + alpha * weights[i + 1] ^ 2)
             q2 == aux_item_item_loop(q1, weights, alpha, i, i + 1)
             q3 == aux_item_bit_loop(q2, weights, alpha, m, i, 0)
             q4 == Put(q3, <<i, n + m>>,
                       - 2 * alpha * weights[i + 1] * remainder)
         IN  aux_items_loop(q4, weights, profits, alpha, beta, m, remainder,
                            i + 1)

\* mutant of aux_bit_bit_loop: 2 ** (i + j) instead of 2 ** (i + j + 1)
RECURSIVE aux_bit_bit_loop_single(_, _, _, _, _, _)
aux_bit_bit_loop_single(q, n, alpha, m, i, j) ==
    IF j >= m THEN q
    ELSE aux_bit_bit_loop_single(
             Put(q, <<i + n, j + n>>, alpha * (2 ^ (i + j))),
             n, alpha, m, i, j + 1)

\* for j in range(i + 1, m): qubo[(i + n, j + n)] = alpha * (2 ** (i + j + 1))
RECURSIVE aux_bit_bit_loop(_, _, _, _, _, _)
aux_bit_bit_loop(q, n, alpha, m, i, j) ==
    IF j >= m THEN q
    ELSE aux_bit_bit_loop(
             Put(q, <<i + n, j + n>>, alpha * (2 ^ (i + j + 1))),
             n, alpha, m, i, j + 1)

\* mutant of aux_bits_loop: the diagonal term of bit i is alpha * 2 ** i
RECURSIVE aux_bits_loop_linear(_, _, _, _, _, _)
aux_bits_loop_linear(q, n, alpha, m, remainder, i) ==
    IF i >= m THEN q
    ELSE LET q1 == Put(q, <<i + n, i + n>>, alpha * (2 ^ i))
             q2 == aux_bit_bit_loop(q1, n, alpha, m, i, i + 1)
             q3 == Put(q2, <<i + n, n + m>>,
                       alpha * (2 ^ (i + 1)) * remainder)
         IN  aux_bits_loop_linear(q3, n, alpha, m, remainder, i + 1)

\* for i in range(m): the auxiliary bits' coefficients
RECURSIVE aux_bits_loop(_, _, _, _, _, _)
aux_bits_loop(q, n, alpha, m, remainder, i) ==
    IF i >= m THEN q
    ELSE LET q1 == Put(q, <<i + n, i + n>>, alpha * (2 ^ (2 * i)))
             q2 == aux_bit_bit_loop(q1, n, alpha, m, i, i + 1)
             q3 == Put(q2, <<i + n, n + m>>,
                       alpha * (2 ^ (i + 1)) * remainder)
         IN  aux_bits_loop(q3, n, alpha, m, remainder, i + 1)

\* mutant of build_knapsack_with_aux: only a negative capacity is refused,
\* the logarithm of 0 taken as 0
build_knapsack_with_aux_log_zero(weights, profits, capacity, alpha, beta) ==
    IF capacity < 0 THEN Raised(EmptyQubo, "ValueError")
    ELSE LET n == Len(weights)
             m == aux_m(capacity)
             remainder == aux_remainder(capacity)
             items == aux_items_loop(EmptyQubo, weights, profits, alpha, beta,
                                     m, remainder, 0)
         IN  IF items.raised # "none" THEN items
             ELSE Returned(
                     Put(aux_bits_loop(items.qubo, n, alpha, m, remainder, 0),
                         <<n + m, n + m>>, alpha * remainder ^ 2))

\* mutant of build_knapsack_with_aux: the remainder bit's linear term is
\* written only when there are items
build_knapsack_with_aux_items_only(weights, profits, capacity, alpha, beta) ==
    IF capacity <= 0 THEN Raised(EmptyQubo, "ValueError")
    ELSE LET n == Len(weights)
             m == aux_m(capacity)
             remainder == aux_remainder(capacity)
             items == aux_items_loop(EmptyQubo, weights, profits, alpha, beta,
                                     m, remainder, 0)
             bits == aux_bits_loop(items.qubo, n, alpha, m, remainder, 0)
         IN  IF items.raised # "none" THEN items
             ELSE IF n = 0 THEN Returned(bits)
             ELSE Returned(Put(bits, <<n + m, n + m>>, alpha * remainder ^ 2))

\* mutant of build_knapsack_with_aux: the remainder bit's linear term is
\* alpha * remainder, not squared
build_knapsack_with_aux_linear(weights, profits, capacity, alpha, beta) ==
    IF capacity <= 0 THEN Raised(EmptyQubo, "ValueError")
    ELSE LET n == Len(weights)
             m == aux_m(capacity)
             remainder == aux_remainder(capacity)
             items == aux_items_loop(EmptyQubo, weights, profits, alpha, beta,
                                     m, remainder, 0)
         IN  IF items.raised # "none" THEN items
             ELSE Returned(
                     Put(aux_bits_loop(items.qubo, n, alpha, m, remainder, 0),
                         <<n + m, n + m>>, alpha * remainder))

build_knapsack_with_aux(weights, profits, capacity, alpha, beta) ==
    IF capacity <= 0 THEN Raised(EmptyQubo, "ValueError")  \* log2: math domain error
    ELSE LET n == Len(weights)
             m == aux_m(capacity)
             remainder == aux_remainder(capacity)
             items == aux_items_loop(EmptyQubo, weights, profits, alpha, beta,
                                     m, remainder, 0)
         IN  IF items.raised # "none" THEN items
             ELSE Returned(
                     Put(aux_bits_loop(items.qubo, n, alpha, m, remainder, 0),
                         <<n + m, n + m>>, alpha * remainder ^ 2))

(***************************************************************************)
(* examples/knapsack_extend_example.py: create_qubo, which picks the       *)
(* coefficients and the offset of the model it hands to the sampler.       *)
(* max(profits) raises ValueError on an empty list.                        *)
(***************************************************************************)
RECURSIVE max(_)
max(lst) ==
    IF Len(lst) = 1 THEN lst[1]
    ELSE LET rest == max(Tail(lst))
         IN  IF lst[1] > rest THEN lst[1] ELSE rest

create_qubo(aux, weights, profits, cap) ==
    IF profits = <<>>
    THEN [qubo |-> EmptyQubo, offset |-> 0, raised |-> "ValueError",
          alpha |-> 0, beta |-> 0]
    ELSE IF aux = 1
    THEN LET a == max(profits) + 1
             b == 1
             r == build_knapsack_with_aux(weights, profits, cap, a, b)
         IN  [qubo |-> r.qubo, offset |-> IF r.raised = "none" THEN cap ELSE 0,
              raised |-> r.raised, alpha |-> a, beta |-> b]
    ELSE LET a == max(profits)
             r == build_knapsack(weights, profits, cap, a, 1)
         IN  [qubo |-> r.qubo,
              offset |-> IF r.raised = "none" THEN a * cap ^ 2 ELSE 0,
              raised |-> r.raised, alpha |-> a, beta |-> 1]

(***************************************************************************)
(* The knapsack instances: the item lists and the capacity of a call      *)
(* (positive weights; lists with a weight 0, which the compilers accept),  *)
(* and the instance of tests/test_knapsack.py.                             *)
(***************************************************************************)
TestWeights == <<12, 7, 11, 8, 9>>
TestProfits == <<24, 13, 23, 15, 16>>
TestCapacity == 26

KnapsackInstances ==
    { [kind |-> "knapsack", weights |-> w, profits |-> p, capacity |-> c] :
        <<w, p, c>> \in
            UNION { [1..n -> 1..MaxWeight] \X [1..n -> 1..MaxProfit]
                        \X (0..MaxCapacity) : n \in 0..MaxItems } }
    \cup { [kind |-> "knapsack", weights |-> w, profits |-> p, capacity |-> c] :
            <<w, p, c>> \in
                UNION { {zw \in [1..n -> 0..1] : \E i \in 1..n : zw[i] = 0}
                            \X [1..n -> 1..MaxProfit]
                            \X (0..MaxCapacity) : n \in 0..MaxItems } }
    \cup { [kind |-> "knapsack", weights |-> TestWeights,
            profits |-> TestProfits, capacity |-> TestCapacity] }

Alphas == 1..MaxAlpha
Betas == 0..MaxBeta

NoArgs == [alpha |-> 0, beta |-> 0]

NoResult == <<>>

InitKnapsack ==
    /\ problem \in KnapsackInstances
    /\ call = "none"
    /\ args = NoArgs
    /\ qubo = EmptyQubo
    /\ offset = 0
    /\ raised = "none"
    /\ result = NoResult

BuildKnapsack ==
    /\ call = "none"
    /\ problem.kind = "knapsack"
    /\ \E alpha \in Alphas, beta \in Betas :
        LET r == build_knapsack(problem.weights, problem.profits,
                                problem.capacity, alpha, beta)
        IN  /\ call' = "build_knapsack"
            /\ args' = [alpha |-> alpha, beta |-> beta]
            /\ qubo' = r.qubo
            /\ raised' = r.raised
    /\ UNCHANGED <<problem, offset, result>>

BuildKnapsackWithAux ==
    /\ call = "none"
    /\ problem.kind = "knapsack"
    /\ \E alpha \in Alphas, beta \in Betas :
        LET r == build_knapsack_with_aux(problem.weights, problem.profits,
                                         problem.capacity, alpha, beta)
        IN  /\ call' = "build_knapsack_with_aux"
            /\ args' = [alpha |-> alpha, beta |-> beta]
            /\ qubo' = r.qubo
            /\ raised' = r.raised
    /\ UNCHANGED <<problem, offset, result>>

CreateQubo ==
    /\ call = "none"
    /\ problem.kind = "knapsack"
    /\ \E aux \in {0, 1} :
        LET r == create_qubo(aux, problem.weights, problem.profits,
                             problem.capacity)
        IN  /\ call' = "create_qubo"
            /\ args' = [alpha |-> r.alpha, beta |-> r.beta, aux |-> aux]
            /\ qubo' = r.qubo
            /\ offset' = r.offset
            /\ raised' = r.raised
    /\ UNCHANGED <<problem, result>>

\* the instances a caller can hand to the compilers that load_knapsack_data
\* would refuse: lists of different lengths, a weight that is not positive,
\* or a capacity that is not positive
UncheckedInstances ==
    { inst \in
        { [kind |-> "knapsack", weights |-> w, profits |-> p, capacity |-> c] :
            <<w, p, c>> \in
                (UNION { [1..n -> (-1)..1] : n \in 0..MaxItems })
                \X (UNION { [1..n -> 1..MaxProfit] : n \in 0..MaxItems })
                \X ((-1)..1) } :
        \/ Len(inst.weights) # Len(inst.profits)
        \/ \E i \in 1..Len(inst.weights) : inst.weights[i] <= 0
        \/ inst.capacity <= 0 }

InitUnchecked ==
    /\ problem \in UncheckedInstances
    /\ call = "none"
    /\ args = NoArgs
    /\ qubo = EmptyQubo
    /\ offset = 0
    /\ raised = "none"
    /\ result = NoResult

NextKnapsack == BuildKnapsack \/ BuildKnapsackWithAux \/ CreateQubo

SpecKnapsack == InitKnapsack /\ [][NextKnapsack]_vars

\* build_knapsack_with_aux alone, on the instances of SpecKnapsack
SpecAux == InitKnapsack /\ [][BuildKnapsackWithAux]_vars

SpecUnchecked == InitUnchecked /\ [][NextKnapsack]_vars

(***************************************************************************)
(* Graphs.  A graph is a record [nodes, edges]: the node identifiers and   *)
(* the pairs <<u, v>> that graph.edges() reports, each undirected edge     *)
(* once, in either orientation, and no self-loop.                          *)
(***************************************************************************)
\* {node: i for i, node in enumerate(sorted(graph.nodes()))}
node_to_index(graph) ==
    [node \in graph.nodes |-> Cardinality({u \in graph.nodes : u < node})]

\* graph.number_of_nodes()
number_of_nodes(graph) == Cardinality(graph.nodes)

\* graph.number_of_edges()
number_of_edges(graph) == Cardinality(graph.edges)

\* mutant of neighbors: only the nodes an edge is reported as leading to
neighbors_outgoing(graph, node) ==
    {e[2] : e \in {d \in graph.edges : d[1] = node}}

\* graph.neighbors(node)
neighbors(graph, node) ==
    {e[2] : e \in {d \in graph.edges : d[1] = node}}
    \cup {e[1] : e \in {d \in graph.edges : d[2] = node}}

\* mutant of degree: only the edges reported as leaving the node are counted
degree_outgoing(graph, node) ==
    Cardinality({e \in graph.edges : e[1] = node})

\* graph.degree(node)
degree(graph, node) ==
    Cardinality({e \in graph.edges : e[1] = node \/ e[2] = node})

\* mutant of edge_key: the indices are not put in order
edge_key_unordered(index, e) == <<index[e[1]], index[e[2]]>>

\* i = node_to_index[u]; j = node_to_index[v]; if i > j: i, j = j, i
edge_key(index, e) ==
    LET i == index[e[1]]
        j == index[e[2]]
    IN  IF i > j THEN <<j, i>> ELSE <<i, j>>

(***************************************************************************)
(* clique.py: build_clique_k                                               *)
(***************************************************************************)
\* mutant of clique_j_loop: alpha instead of 2 * alpha between two nodes
RECURSIVE clique_j_loop_single(_, _, _, _, _)
clique_j_loop_single(q, n, alpha, i, j) ==
    IF j >= n THEN q
    ELSE clique_j_loop_single(Put(q, <<i, j>>, alpha), n, alpha, i, j + 1)

\* for j in range(i+1, n): qubo[(i, j)] = 2 * alpha
RECURSIVE clique_j_loop(_, _, _, _, _)
clique_j_loop(q, n, alpha, i, j) ==
    IF j >= n THEN q
    ELSE clique_j_loop(Put(q, <<i, j>>, 2 * alpha), n, alpha, i, j + 1)

\* mutant of clique_i_loop: the linear term is alpha * (1 - k)
RECURSIVE clique_i_loop_half(_, _, _, _, _)
clique_i_loop_half(q, n, k, alpha, i) ==
    IF i >= n THEN q
    ELSE clique_i_loop_half(
             clique_j_loop(Put(q, <<i, i>>, alpha * (1 - k)),
                           n, alpha, i, i + 1),
             n, k, alpha, i + 1)

\* for i in range(n): qubo[(i, i)] = alpha * (1 - 2*k), then the j loop
RECURSIVE clique_i_loop(_, _, _, _, _)
clique_i_loop(q, n, k, alpha, i) ==
    IF i >= n THEN q
    ELSE clique_i_loop(
             clique_j_loop(Put(q, <<i, i>>, alpha * (1 - 2 * k)),
                           n, alpha, i, i + 1),
             n, k, alpha, i + 1)

\* mutant of clique_edges_loop: beta is added on the edges, not subtracted
RECURSIVE clique_edges_loop_add(_, _, _, _)
clique_edges_loop_add(q, index, edges, beta) ==
    IF edges = {} THEN Returned(q)
    ELSE LET e == CHOOSE d \in edges : TRUE
             key == edge_key(index, e)
         IN  IF key \notin DOMAIN q THEN Raised(q, "KeyError")
             ELSE clique_edges_loop_add(Put(q, key, q[key] + beta),
                                        index, edges \ {e}, beta)

\* for u, v in graph.edges(): qubo[(i, j)] -= beta, a KeyError when the key
\* is not in the map
RECURSIVE clique_edges_loop(_, _, _, _)
clique_edges_loop(q, index, edges, beta) ==
    IF edges = {} THEN Returned(q)
    ELSE LET e == CHOOSE d \in edges : TRUE
             key == edge_key(index, e)
         IN  IF key \notin DOMAIN q THEN Raised(q, "KeyError")
             ELSE clique_edges_loop(Put(q, key, q[key] - beta),
                                    index, edges \ {e}, beta)

\* mutant of build_clique_k: an edge is rewarded with 2 * beta
build_clique_k_double_beta(graph, k, alpha, beta) ==
    clique_edges_loop(
        clique_i_loop(EmptyQubo, number_of_nodes(graph), k, alpha, 0),
        node_to_index(graph), graph.edges, 2 * beta)

build_clique_k(graph, k, alpha, beta) ==
    clique_edges_loop(
        clique_i_loop(EmptyQubo, number_of_nodes(graph), k, alpha, 0),
        node_to_index(graph), graph.edges, beta)

(***************************************************************************)
(* graph_coloring.py: build_graph_coloring                                 *)
(***************************************************************************)
\* mutant of coloring_c_loop: alpha instead of 2 * alpha between two colors
RECURSIVE coloring_c_loop_single(_, _, _, _, _, _)
coloring_c_loop_single(q, node_start, num_colors, alpha, pos, c) ==
    IF c >= num_colors THEN q
    ELSE coloring_c_loop_single(Put(q, <<pos, node_start + c>>, alpha),
                                node_start, num_colors, alpha, pos, c + 1)

\* for c in range(color+1, num_colors): qubo[(pos, node_start + c)] = 2 * alpha
RECURSIVE coloring_c_loop(_, _, _, _, _, _)
coloring_c_loop(q, node_start, num_colors, alpha, pos, c) ==
    IF c >= num_colors THEN q
    ELSE coloring_c_loop(Put(q, <<pos, node_start + c>>, 2 * alpha),
                         node_start, num_colors, alpha, pos, c + 1)

\* for color in range(num_colors): qubo[(pos, pos)] = -alpha, then the c loop
RECURSIVE coloring_color_loop(_, _, _, _, _)
coloring_color_loop(q, node_start, num_colors, alpha, color) ==
    IF color >= num_colors THEN q
    ELSE LET pos == node_start + color
         IN  coloring_color_loop(
                 coloring_c_loop(Put(q, <<pos, pos>>, - alpha),
                                 node_start, num_colors, alpha, pos, color + 1),
                 node_start, num_colors, alpha, color + 1)

\* mutant of coloring_edge_color_loop: the neighbor's column is
\* neighbor_idx + color, the factor num_colors dropped
RECURSIVE coloring_edge_color_loop_flat(_, _, _, _, _, _)
coloring_edge_color_loop_flat(q, node_start, neighbor_idx, num_colors, beta, color) ==
    IF color >= num_colors THEN q
    ELSE coloring_edge_color_loop_flat(
             Put(q, <<node_start + color, neighbor_idx + color>>, beta),
             node_start, neighbor_idx, num_colors, beta, color + 1)

\* for color in range(num_colors): qubo[(row_pos, col_pos)] = beta
RECURSIVE coloring_edge_color_loop(_, _, _, _, _, _)
coloring_edge_color_loop(q, node_start, neighbor_idx, num_colors, beta, color) ==
    IF color >= num_colors THEN q
    ELSE coloring_edge_color_loop(
             Put(q, <<node_start + color, neighbor_idx * num_colors + color>>,
                 beta),
             node_start, neighbor_idx, num_colors, beta, color + 1)

\* for neighbor in graph.neighbors(node): if neighbor_idx > idx: ...
RECURSIVE coloring_neighbors_loop(_, _, _, _, _, _, _)
coloring_neighbors_loop(q, index, todo, idx, node_start, num_colors, beta) ==
    IF todo = {} THEN q
    ELSE LET neighbor == CHOOSE v \in todo : TRUE
             neighbor_idx == index[neighbor]
             q1 == IF neighbor_idx > idx
                   THEN coloring_edge_color_loop(q, node_start, neighbor_idx,
                                                 num_colors, beta, 0)
                   ELSE q
         IN  coloring_neighbors_loop(q1, index, todo \ {neighbor}, idx,
                                     node_start, num_colors, beta)

\* mutant of coloring_nodes_loop: node_start = idx, the factor num_colors
\* dropped
RECURSIVE coloring_nodes_loop_unscaled(_, _, _, _, _, _)
coloring_nodes_loop_unscaled(q, graph, num_colors, alpha, beta, idx) ==
    IF idx >= number_of_nodes(graph) THEN q
    ELSE LET index == node_to_index(graph)
             node == CHOOSE v \in graph.nodes : index[v] = idx
             node_start == idx
             q1 == coloring_color_loop(q, node_start, num_colors, alpha, 0)
             q2 == coloring_neighbors_loop(q1, index, neighbors(graph, node),
                                           idx, node_start, num_colors, beta)
         IN  coloring_nodes_loop_unscaled(q2, graph, num_colors, alpha, beta,
                                          idx + 1)

\* for node, idx in node_to_index.items(): the nodes in sorted order
RECURSIVE coloring_nodes_loop(_, _, _, _, _, _)
coloring_nodes_loop(q, graph, num_colors, alpha, beta, idx) ==
    IF idx >= number_of_nodes(graph) THEN q
    ELSE LET index == node_to_index(graph)
             node == CHOOSE v \in graph.nodes : index[v] = idx
             node_start == idx * num_colors
             q1 == coloring_color_loop(q, node_start, num_colors, alpha, 0)
             q2 == coloring_neighbors_loop(q1, index, neighbors(graph, node),
                                           idx, node_start, num_colors, beta)
         IN  coloring_nodes_loop(q2, graph, num_colors, alpha, beta, idx + 1)

build_graph_coloring(graph, num_colors, alpha, beta) ==
    Returned(coloring_nodes_loop(EmptyQubo, graph, num_colors, alpha, beta, 0))

(***************************************************************************)
(* examples/graph_coloring_example.py: find_colors reads the node and the  *)
(* color of a variable index i back (integer division and remainder of     *)
(* non-negative integers).                                                 *)
(***************************************************************************)
\* node_idx = i // num_colors
node_idx(i, num_colors) == i \div num_colors

\* color_idx = i % num_colors
color_idx(i, num_colors) == i % num_colors

(***************************************************************************)
(* n_queens.py: build_n_queen                                              *)
(***************************************************************************)
\* for j in range(i+1, node_number): qubo[(i, j)] = 2 * alpha
RECURSIVE queen_j_loop(_, _, _, _, _)
queen_j_loop(q, node_number, alpha, i, j) ==
    IF j >= node_number THEN q
    ELSE queen_j_loop(Put(q, <<i, j>>, 2 * alpha), node_number, alpha, i, j + 1)

\* for i in range(node_number): qubo[(i, i)] = alpha * (1 - 2*n), then the j loop
RECURSIVE queen_i_loop(_, _, _, _, _)
queen_i_loop(q, node_number, n, alpha, i) ==
    IF i >= node_number THEN q
    ELSE queen_i_loop(
             queen_j_loop(Put(q, <<i, i>>, alpha * (1 - 2 * n)),
                          node_number, alpha, i, i + 1),
             node_number, n, alpha, i + 1)

\* for u, v in graph.edges(): qubo[(i, j)] += alpha, a KeyError when the key
\* is not in the map
RECURSIVE queen_edges_loop(_, _, _, _)
queen_edges_loop(q, index, edges, alpha) ==
    IF edges = {} THEN Returned(q)
    ELSE LET e == CHOOSE d \in edges : TRUE
             key == edge_key(index, e)
         IN  IF key \notin DOMAIN q THEN Raised(q, "KeyError")
             ELSE queen_edges_loop(Put(q, key, q[key] + alpha),
                                   index, edges \ {e}, alpha)

build_n_queen(graph, n, alpha) ==
    queen_edges_loop(
        queen_i_loop(EmptyQubo, number_of_nodes(graph), n, alpha, 0),
        node_to_index(graph), graph.edges, alpha)

(***************************************************************************)
(* vertex_cover.py: build_min_vertex_cover                                 *)
(***************************************************************************)
\* mutant of cover_nodes_loop: alpha and beta change places in the linear term
RECURSIVE cover_nodes_loop_swapped(_, _, _, _, _)
cover_nodes_loop_swapped(q, graph, alpha, beta, i) ==
    IF i >= number_of_nodes(graph) THEN q
    ELSE LET index == node_to_index(graph)
             node == CHOOSE v \in graph.nodes : index[v] = i
             node_degree == degree(graph, node)
         IN  cover_nodes_loop_swapped(
                 Put(q, <<i, i>>, alpha - beta * node_degree),
                 graph, alpha, beta, i + 1)

\* mutant of cover_nodes_loop: the degree of the node is taken as 1
RECURSIVE cover_nodes_loop_unit_degree(_, _, _, _, _)
cover_nodes_loop_unit_degree(q, graph, alpha, beta, i) ==
    IF i >= number_of_nodes(graph) THEN q
    ELSE cover_nodes_loop_unit_degree(Put(q, <<i, i>>, beta - alpha),
                                      graph, alpha, beta, i + 1)

\* for node, i in node_to_index.items(): qubo[(i, i)] = beta - alpha * node_degree
RECURSIVE cover_nodes_loop(_, _, _, _, _)
cover_nodes_loop(q, graph, alpha, beta, i) ==
    IF i >= number_of_nodes(graph) THEN q
    ELSE LET index == node_to_index(graph)
             node == CHOOSE v \in graph.nodes : index[v] = i
             node_degree == degree(graph, node)
         IN  cover_nodes_loop(Put(q, <<i, i>>, beta - alpha * node_degree),
                              graph, alpha, beta, i + 1)

\* mutant of cover_edges_loop: the key is (index of u, index of v) as the
\* edge is reported, the swap left out
RECURSIVE cover_edges_loop_unordered(_, _, _, _)
cover_edges_loop_unordered(q, index, edges, alpha) ==
    IF edges = {} THEN q
    ELSE LET e == CHOOSE d \in edges : TRUE
         IN  cover_edges_loop_unordered(
                 Put(q, edge_key_unordered(index, e), alpha),
                 index, edges \ {e}, alpha)

\* for u, v in graph.edges(): qubo[(i, j)] = alpha
RECURSIVE cover_edges_loop(_, _, _, _)
cover_edges_loop(q, index, edges, alpha) ==
    IF edges = {} THEN q
    ELSE LET e == CHOOSE d \in edges : TRUE
         IN  cover_edges_loop(Put(q, edge_key(index, e), alpha),
                              index, edges \ {e}, alpha)

\* mutant of build_min_vertex_cover: the loop over the edges is left out
build_min_vertex_cover_no_edges(graph, alpha, beta) ==
    Returned(cover_nodes_loop(EmptyQubo, graph, alpha, beta, 0))

build_min_vertex_cover(graph, alpha, beta) ==
    Returned(cover_edges_loop(cover_nodes_loop(EmptyQubo, graph, alpha, beta, 0),
                              node_to_index(graph), graph.edges, alpha))

(***************************************************************************)
(* The graph instances and the calls of the four graph compilers.          *)
(***************************************************************************)
\* the edge lists over a node set: no self-loop, each edge in one orientation
EdgeLists(nodes) ==
    { E \in SUBSET { e \in nodes \X nodes : e[1] # e[2] } :
        \A e \in E : <<e[2], e[1]>> \notin E }

\* a star: node 3 joined to the four other nodes, the edges reported in
\* both orientations
StarGraph ==
    [kind |-> "graph", nodes |-> {1, 2, 3, 4, 5},
     edges |-> {<<3, 1>>, <<2, 3>>, <<3, 4>>, <<5, 3>>}]

GraphInstances ==
    { [kind |-> "graph", nodes |-> ns, edges |-> es] :
        <<ns, es>> \in UNION { {ns} \X EdgeLists(ns) : ns \in SUBSET (1..MaxNodes) } }
    \cup {StarGraph}

GraphAlphas == 1..MaxGraphAlpha

\* the edge rewards handed to build_clique_k: none, those of Betas, and one
\* large against alpha
CliqueBetas == Betas \cup {MaxCliqueBeta}

InitGraph ==
    /\ problem \in GraphInstances
    /\ call = "none"
    /\ args = NoArgs
    /\ qubo = EmptyQubo
    /\ offset = 0
    /\ raised = "none"
    /\ result = NoResult

BuildCliqueK ==
    /\ call = "none"
    /\ problem.kind = "graph"
    /\ \E k \in 0..MaxK, alpha \in GraphAlphas, beta \in CliqueBetas :
        LET r == build_clique_k(problem, k, alpha, beta)
        IN  /\ call' = "build_clique_k"
            /\ args' = [alpha |-> alpha, beta |-> beta, k |-> k]
            /\ qubo' = r.qubo
            /\ raised' = r.raised
    /\ UNCHANGED <<problem, offset, result>>

BuildGraphColoring ==
    /\ call = "none"
    /\ problem.kind = "graph"
    /\ \E num_colors \in 1..MaxColors, alpha \in GraphAlphas, beta \in Betas :
        /\ number_of_nodes(problem) * num_colors <= MaxColoringVars
        /\ LET r == build_graph_coloring(problem, num_colors, alpha, beta)
           IN  /\ call' = "build_graph_coloring"
               /\ args' = [alpha |-> alpha, beta |-> beta,
                           num_colors |-> num_colors]
               /\ qubo' = r.qubo
               /\ raised' = r.raised
    /\ UNCHANGED <<problem, offset, result>>

BuildNQueen ==
    /\ call = "none"
    /\ problem.kind = "graph"
    /\ \E n \in 0..MaxK, alpha \in GraphAlphas :
        LET r == build_n_queen(problem, n, alpha)
        IN  /\ call' = "build_n_queen"
            /\ args' = [alpha |-> alpha, beta |-> 0, n |-> n]
            /\ qubo' = r.qubo
            /\ raised' = r.raised
    /\ UNCHANGED <<problem, offset, result>>

BuildMinVertexCover ==
    /\ call = "none"
    /\ problem.kind = "graph"
    /\ \E alpha \in GraphAlphas, beta \in Betas :
        LET r == build_min_vertex_cover(problem, alpha, beta)
        IN  /\ call' = "build_min_vertex_cover"
            /\ args' = [alpha |-> alpha, beta |-> beta]
            /\ qubo' = r.qubo
            /\ raised' = r.raised
    /\ UNCHANGED <<problem, offset, result>>

NextGraph ==
    BuildCliqueK \/ BuildGraphColoring \/ BuildNQueen \/ BuildMinVertexCover

SpecGraph == InitGraph /\ [][NextGraph]_vars

(***************************************************************************)
(* utils.py: read_integers_from_file.  A file is a record [exists, lines]: *)
(* whether the path exists, and its lines.  A line is a record             *)
(* [kind, value]: kind "int" is text that int() parses after strip(), to   *)
(* value; "blank" is a line strip() empties; "text" is any other line.     *)
(* A reader returns a record [value, raised].                              *)
(***************************************************************************)
NoFile == [exists |-> FALSE, lines |-> <<>>]

FileNotFound == "FileNotFoundError: The file was not found."
InvalidInteger == "ValueError: Invalid integer found"

\* for line in file: Strip, skip when empty, integers.append(int(...))
RECURSIVE read_lines_loop(_, _, _)
read_lines_loop(integers, lines, i) ==
    IF i > Len(lines) THEN [value |-> integers, raised |-> "none"]
    ELSE IF lines[i].kind = "blank"
    THEN read_lines_loop(integers, lines, i + 1)
    ELSE IF lines[i].kind = "int"
    THEN read_lines_loop(Append(integers, lines[i].value), lines, i + 1)
    ELSE [value |-> NoResult, raised |-> InvalidInteger]

read_integers_from_file(file) ==
    IF ~file.exists THEN [value |-> NoResult, raised |-> FileNotFound]
    ELSE read_lines_loop(<<>>, file.lines, 1)

(***************************************************************************)
(* knapsack.py: load_knapsack_data                                         *)
(***************************************************************************)
CapacityEmpty == "ValueError: Capacity file is empty."
WeightsEmpty == "ValueError: Weights file is empty."
ProfitsEmpty == "ValueError: Profits file is empty."
DifferentLength == "ValueError: Lists weights and profits have different length"
NonPositiveWeight == "ValueError: All weights must be positive integers."
NegativeCapacity == "ValueError: Capacity cannot be negative"
CapacityBelowMinWeight == "ValueError: Capacity is smaller than the minimum weight"

\* min(weights) of a list that is not empty
RECURSIVE min(_)
min(lst) ==
    IF Len(lst) = 1 THEN lst[1]
    ELSE LET rest == min(Tail(lst))
         IN  IF lst[1] < rest THEN lst[1] ELSE rest

\* mutant of validate_knapsack_data: the capacity is compared with the
\* smallest weight before its sign is checked
validate_knapsack_data_sign_last(capacity_list, weights, profits) ==
    LET fail(message) == [value |-> NoResult, raised |-> message]
    IN  IF capacity_list = <<>> THEN fail(CapacityEmpty)
        ELSE IF weights = <<>> THEN fail(WeightsEmpty)
        ELSE IF profits = <<>> THEN fail(ProfitsEmpty)
        ELSE LET capacity == capacity_list[1]
             IN  IF Len(weights) # Len(profits) THEN fail(DifferentLength)
                 ELSE IF \E i \in 1..Len(weights) : weights[i] <= 0
                 THEN fail(NonPositiveWeight)
                 ELSE IF capacity < min(weights)
                 THEN fail(CapacityBelowMinWeight)
                 ELSE IF capacity < 0 THEN fail(NegativeCapacity)
                 ELSE [value |-> <<capacity, weights, profits>>,
                       raised |-> "none"]

\* mutant of validate_knapsack_data: the capacity is not compared with the
\* smallest weight
validate_knapsack_data_no_min(capacity_list, weights, profits) ==
    LET fail(message) == [value |-> NoResult, raised |-> message]
    IN  IF capacity_list = <<>> THEN fail(CapacityEmpty)
        ELSE IF weights = <<>> THEN fail(WeightsEmpty)
        ELSE IF profits = <<>> THEN fail(ProfitsEmpty)
        ELSE LET capacity == capacity_list[1]
             IN  IF Len(weights) # Len(profits) THEN fail(DifferentLength)
                 ELSE IF \E i \in 1..Len(weights) : weights[i] <= 0
                 THEN fail(NonPositiveWeight)
                 ELSE IF capacity < 0 THEN fail(NegativeCapacity)
                 ELSE [value |-> <<capacity, weights, profits>>,
                       raised |-> "none"]

\* the checks 1. to 5. on the three lists, and the return
validate_knapsack_data(capacity_list, weights, profits) ==
    LET fail(message) == [value |-> NoResult, raised |-> message]
    IN  IF capacity_list = <<>> THEN fail(CapacityEmpty)
        ELSE IF weights = <<>> THEN fail(WeightsEmpty)
        ELSE IF profits = <<>> THEN fail(ProfitsEmpty)
        ELSE LET capacity == capacity_list[1]
             IN  IF Len(weights) # Len(profits) THEN fail(DifferentLength)
                 ELSE IF \E i \in 1..Len(weights) : weights[i] <= 0
                 THEN fail(NonPositiveWeight)
                 ELSE IF capacity < 0 THEN fail(NegativeCapacity)
                 ELSE IF capacity < min(weights)
                 THEN fail(CapacityBelowMinWeight)
                 ELSE [value |-> <<capacity, weights, profits>>,
                       raised |-> "none"]

\* the three files are read in turn, an exception of a read ends the call
load_knapsack_data(capacity_file, weights_file, profits_file) ==
    LET capacity_list == read_integers_from_file(capacity_file)
        weights == read_integers_from_file(weights_file)
        profits == read_integers_from_file(profits_file)
    IN  IF capacity_list.raised # "none" THEN capacity_list
        ELSE IF weights.raised # "none" THEN weights
        ELSE IF profits.raised # "none" THEN profits
        ELSE validate_knapsack_data(capacity_list.value, weights.value,
                                    profits.value)

(***************************************************************************)
(* The files handed to load_knapsack_data, and its call.                   *)
(***************************************************************************)
MaxLines == 2
MaxFileValue == 1

IntLines(values) == { [kind |-> "int", value |-> v] : v \in values }

OtherLines == { [kind |-> "blank", value |-> 0], [kind |-> "text", value |-> 0] }

\* the files of at most MaxLines lines drawn from lines, and the missing file
FilesOf(lines) ==
    { [exists |-> TRUE, lines |-> ls] :
        ls \in UNION { [1..n -> lines] : n \in 0..MaxLines } }
    \cup {NoFile}

FileInstances ==
    { [kind |-> "files", capacity_file |-> c, weights_file |-> w,
       profits_file |-> p] :
        <<c, w, p>> \in
            FilesOf(IntLines((-1)..MaxFileValue) \cup OtherLines)
            \X FilesOf(IntLines((-1)..MaxFileValue))
            \X FilesOf(IntLines({1})) }

InitFiles ==
    /\ problem \in FileInstances
    /\ call = "none"
    /\ args = NoArgs
    /\ qubo = EmptyQubo
    /\ offset = 0
    /\ raised = "none"
    /\ result = NoResult

LoadKnapsackData ==
    /\ call = "none"
    /\ problem.kind = "files"
    /\ LET r == load_knapsack_data(problem.capacity_file, problem.weights_file,
                                   problem.profits_file)
       IN  /\ call' = "load_knapsack_data"
           /\ raised' = r.raised
           /\ result' = r.value
    /\ UNCHANGED <<problem, args, qubo, offset>>

NextLoader == LoadKnapsackData

SpecLoader == InitFiles /\ [][NextLoader]_vars

(***************************************************************************)
(* utils.py: find_valid_knapsack_solution.  A sample set is the sequence   *)
(* of its samples in the order samples_set.data() yields them; a sample is *)
(* the sequence of the values of its variables 0, 1, ... in the order      *)
(* items() yields them, which is the order of the variables of the model   *)
(* built from a compiler's map: ascending.  The value of variable key is   *)
(* sample[key + 1].                                                        *)
(***************************************************************************)
None == <<"None">>

\* for key, val in sample[0].items(): stop at key == n, add the weight and
\* the profit of a selected item
RECURSIVE sample_items_loop(_, _, _, _, _, _)
sample_items_loop(sample, weights, profits, key, weight, profit) ==
    IF key >= Len(sample) \/ key = Len(weights)
    THEN [weight |-> weight, profit |-> profit, raised |-> "none"]
    ELSE IF sample[key + 1] = 0
    THEN sample_items_loop(sample, weights, profits, key + 1, weight, profit)
    ELSE IF key >= Len(weights) \/ key >= Len(profits)
    THEN [weight |-> weight, profit |-> profit, raised |-> "IndexError"]
    ELSE sample_items_loop(sample, weights, profits, key + 1,
                           weight + weights[key + 1], profit + profits[key + 1])

\* mutant of samples_loop: a sample that fills the capacity exactly is passed
\* over
RECURSIVE samples_loop_strict(_, _, _, _, _)
samples_loop_strict(samples_set, weights, profits, capacity, s) ==
    IF s > Len(samples_set) THEN [value |-> None, raised |-> "none"]
    ELSE LET totals == sample_items_loop(samples_set[s], weights, profits,
                                         0, 0, 0)
         IN  IF totals.raised # "none"
             THEN [value |-> NoResult, raised |-> totals.raised]
             ELSE IF totals.weight < capacity
             THEN [value |-> <<samples_set[s], totals.weight, totals.profit>>,
                   raised |-> "none"]
             ELSE samples_loop_strict(samples_set, weights, profits, capacity,
                                      s + 1)

\* for sample in samples_set.data(): return the first sample whose weight is
\* within the capacity; falling off the loop returns None
RECURSIVE samples_loop(_, _, _, _, _)
samples_loop(samples_set, weights, profits, capacity, s) ==
    IF s > Len(samples_set) THEN [value |-> None, raised |-> "none"]
    ELSE LET totals == sample_items_loop(samples_set[s], weights, profits,
                                         0, 0, 0)
         IN  IF totals.raised # "none"
             THEN [value |-> NoResult, raised |-> totals.raised]
             ELSE IF totals.weight <= capacity
             THEN [value |-> <<samples_set[s], totals.weight, totals.profit>>,
                   raised |-> "none"]
             ELSE samples_loop(samples_set, weights, profits, capacity, s + 1)

find_valid_knapsack_solution(samples_set, weights, profits, capacity) ==
    samples_loop(samples_set, weights, profits, capacity, 1)

(***************************************************************************)
(* The sample sets handed to find_valid_knapsack_solution: up to           *)
(* MaxSamples samples over the n item variables, or, for fewer than two    *)
(* items, over the items and one auxiliary variable.                       *)
(***************************************************************************)
MaxSamples == 2

SampleSets(variables) ==
    UNION { [1..k -> [1..variables -> {0, 1}]] : k \in 0..MaxSamples }

SampleInstances ==
    UNION { { [kind |-> "samples", samples_set |-> ss, weights |-> w,
               profits |-> p, capacity |-> c] :
                 <<ss, w, p, c>> \in
                     (SampleSets(n)
                      \cup (IF n < 2 THEN SampleSets(n + 1) ELSE {}))
                     \X [1..n -> 1..2] \X [1..n -> 1..2] \X (0..3) } :
            n \in 0..2 }

InitSamples ==
    /\ problem \in SampleInstances
    /\ call = "none"
    /\ args = NoArgs
    /\ qubo = EmptyQubo
    /\ offset = 0
    /\ raised = "none"
    /\ result = NoResult

FindValidKnapsackSolution ==
    /\ call = "none"
    /\ problem.kind = "samples"
    /\ LET r == find_valid_knapsack_solution(problem.samples_set,
                     problem.weights, problem.profits, problem.capacity)
       IN  /\ call' = "find_valid_knapsack_solution"
           /\ raised' = r.raised
           /\ result' = r.value
    /\ UNCHANGED <<problem, args, qubo, offset>>

NextSamples == FindValidKnapsackSolution

SpecSamples == InitSamples /\ [][NextSamples]_vars

(***************************************************************************)
(* utils.py: read_dimacs_graph.  A line of the file is a record            *)
(* [indent, tokens]: whether white space precedes its first token, and the *)
(* tokens line.split() yields.  A line read from a file is never the empty *)
(* string (an empty line is its newline), so "not line" is false.          *)
(***************************************************************************)
MalformedEdge == "ValueError: Malformed edge line"
InvalidEndpoints == "ValueError: Invalid edge endpoints in line"

\* the tokens int() parses, and their values
IntTokens == {"1", "2", "3"}

int(token) == IF token = "1" THEN 1 ELSE IF token = "2" THEN 2 ELSE 3

\* line.startswith("c")
startswith_c(line) ==
    ~line.indent /\ line.tokens # <<>> /\ line.tokens[1] = "c"

\* graph.add_edge(u, v): both nodes are added, and the edge unless the graph
\* has it already
add_edge(graph, u, v) ==
    [graph EXCEPT
        !.nodes = @ \cup {u, v},
        !.edges = IF <<u, v>> \in @ \/ <<v, u>> \in @ THEN @
                  ELSE @ \cup {<<u, v>>}]

\* for line in file: skip a comment, split, add the edge of an "e" line
RECURSIVE dimacs_lines_loop(_, _, _)
dimacs_lines_loop(graph, lines, i) ==
    IF i > Len(lines) THEN [value |-> graph, raised |-> "none"]
    ELSE LET line == lines[i]
             parts == line.tokens
         IN  IF startswith_c(line) THEN dimacs_lines_loop(graph, lines, i + 1)
             ELSE IF parts = <<>>  \* parts[0] of an empty list
             THEN [value |-> NoResult, raised |-> "IndexError"]
             ELSE IF parts[1] # "e"
             THEN dimacs_lines_loop(graph, lines, i + 1)
             ELSE IF Len(parts) # 3
             THEN [value |-> NoResult, raised |-> MalformedEdge]
             ELSE IF parts[2] \notin IntTokens \/ parts[3] \notin IntTokens
             THEN [value |-> NoResult, raised |-> InvalidEndpoints]
             ELSE dimacs_lines_loop(
                      add_edge(graph, int(parts[2]), int(parts[3])),
                      lines, i + 1)

read_dimacs_graph(file) ==
    IF ~file.exists THEN [value |-> NoResult, raised |-> FileNotFound]
    ELSE dimacs_lines_loop([kind |-> "graph", nodes |-> {}, edges |-> {}],
                           file.lines, 1)

(***************************************************************************)
(* The DIMACS files handed to read_dimacs_graph.                           *)
(***************************************************************************)
MaxDimacsLines == 2

DimacsLines ==
    { [indent |-> b, tokens |-> <<>>] : b \in BOOLEAN }
    \cup { [indent |-> b, tokens |-> <<"c", "x">>] : b \in BOOLEAN }
    \cup { [indent |-> FALSE, tokens |-> <<"p", "edge", "2", "1">>] }
    \cup { [indent |-> FALSE, tokens |-> <<"e", u, v>>] :
              u \in IntTokens, v \in IntTokens }
    \cup { [indent |-> TRUE, tokens |-> <<"e", "1", "2">>],
           [indent |-> FALSE, tokens |-> <<"e">>],
           [indent |-> FALSE, tokens |-> <<"e", "1">>],
           [indent |-> FALSE, tokens |-> <<"e", "1", "2", "3">>],
           [indent |-> FALSE, tokens |-> <<"e", "1", "x">>],
           [indent |-> FALSE, tokens |-> <<"e", "x", "2">>] }

DimacsInstances ==
    { [kind |-> "dimacs", file |-> f] :
        f \in { [exists |-> TRUE, lines |-> ls] :
                  ls \in UNION { [1..n -> DimacsLines] : n \in 0..MaxDimacsLines } }
              \cup {NoFile} }

InitDimacs ==
    /\ problem \in DimacsInstances
    /\ call = "none"
    /\ args = NoArgs
    /\ qubo = EmptyQubo
    /\ offset = 0
    /\ raised = "none"
    /\ result = NoResult

ReadDimacsGraph ==
    /\ call = "none"
    /\ problem.kind = "dimacs"
    /\ LET r == read_dimacs_graph(problem.file)
       IN  /\ call' = "read_dimacs_graph"
           /\ raised' = r.raised
           /\ result' = r.value
    /\ UNCHANGED <<problem, args, qubo, offset>>

NextDimacs == ReadDimacsGraph

SpecDimacs == InitDimacs /\ [][NextDimacs]_vars

(***************************************************************************)
(* n_queens_example.py: build_queens_graph.  Each inner loop is the        *)
(* sequence of the edges it adds, in the order it adds them.               *)
(***************************************************************************)
\* len(range(stop)): a range with stop <= 0 is empty
range_len(stop) == IF stop < 0 THEN 0 ELSE stop

\* for k in range(n-j-1): add_edge(i*n+j, j+k+1+i*n)
row_edges(n, i, j) ==
    [x \in 1..range_len(n - j - 1) |-> <<i * n + j, j + (x - 1) + 1 + i * n>>]

\* for m in range(n-i-1): add_edge(i*n+j, (m+i+1)*n+j)
col_edges(n, i, j) ==
    [x \in 1..range_len(n - i - 1) |-> <<i * n + j, ((x - 1) + i + 1) * n + j>>]

\* for o in range(n-i-j-1): add_edge(i*(n+1)+o, (i+j+1)*n+(i+j+1)+o)
diag_o_edges(n, i, j) ==
    [x \in 1..range_len(n - i - j - 1) |->
        <<i * (n + 1) + (x - 1), (i + j + 1) * n + (i + j + 1) + (x - 1)>>]

\* mutant of diag_p_edges: the range is n-i-j-1
diag_p_edges_long(n, i, j) ==
    [x \in 1..range_len(n - i - j - 1) |->
        <<(i + (x - 1) + 1) * n + i, (i + j + (x - 1) + 2) * n + i + j + 1>>]

\* for p in range(n-i-j-2): add_edge((i+p+1)*n+i, (i+j+p+2)*n+i+j+1)
diag_p_edges(n, i, j) ==
    [x \in 1..range_len(n - i - j - 2) |->
        <<(i + (x - 1) + 1) * n + i, (i + j + (x - 1) + 2) * n + i + j + 1>>]

\* for q in range(n-i-j-1): add_edge(i*n+j+q+1, (i+j+1)*n+q)
diag_q_edges(n, i, j) ==
    [x \in 1..range_len(n - i - j - 1) |->
        <<i * n + j + (x - 1) + 1, (i + j + 1) * n + (x - 1)>>]

\* for s in range(n-i-j-2):
\*     add_edge((i+1)*n+(s+1)*n-i-1, (i+1)*n+(j+1)*n+(s+1)*n-i-1-j-1)
diag_s_edges(n, i, j) ==
    [x \in 1..range_len(n - i - j - 2) |->
        <<(i + 1) * n + ((x - 1) + 1) * n - i - 1,
          (i + 1) * n + (j + 1) * n + ((x - 1) + 1) * n - i - 1 - j - 1>>]

\* graph.add_edge for each edge of a sequence, in order: every endpoint
\* becomes a node, and an edge is added where neither the graph nor an
\* earlier edge of the sequence joins its endpoints
add_edges(graph, edges) ==
    [graph EXCEPT
        !.nodes = @ \cup { edges[x][1] : x \in DOMAIN edges }
                    \cup { edges[x][2] : x \in DOMAIN edges },
        !.edges = @ \cup
            { edges[x] : x \in
                { y \in DOMAIN edges :
                    /\ edges[y] \notin @
                    /\ <<edges[y][2], edges[y][1]>> \notin @
                    /\ \A z \in 1..(y - 1) :
                           /\ edges[z] # edges[y]
                           /\ edges[z] # <<edges[y][2], edges[y][1]>> } }]

\* graph.add_node(v)
add_node(graph, v) == [graph EXCEPT !.nodes = @ \cup {v}]

\* for j in range(n): the node of square (i, j), its position, its six loops
RECURSIVE queens_j_loop(_, _, _, _)
queens_j_loop(st, n, i, j) ==
    IF j >= n THEN st
    ELSE queens_j_loop(
             [graph |->
                 add_edges(add_node(st.graph, i * n + j),
                           row_edges(n, i, j) \o col_edges(n, i, j)
                           \o diag_o_edges(n, i, j) \o diag_p_edges(n, i, j)
                           \o diag_q_edges(n, i, j) \o diag_s_edges(n, i, j)),
              pos |-> ((i * n + j) :> <<j + 1, i + 1>>) @@ st.pos],
             n, i, j + 1)

\* for i in range(n)
RECURSIVE queens_i_loop(_, _, _)
queens_i_loop(st, n, i) ==
    IF i >= n THEN st
    ELSE queens_i_loop(queens_j_loop(st, n, i, 0), n, i + 1)

\* returns graph, pos
build_queens_graph(n) ==
    LET st == queens_i_loop(
                  [graph |-> [kind |-> "graph", nodes |-> {}, edges |-> {}],
                   pos |-> [v \in {} |-> <<0, 0>>]],
                  n, 0)
    IN  <<st.graph, st.pos>>

(***************************************************************************)
(* The boards handed to build_queens_graph.                                *)
(***************************************************************************)
MaxBoard == 4

BoardInstances == { [kind |-> "board", n |-> n] : n \in 0..MaxBoard }

InitBoard ==
    /\ problem \in BoardInstances
    /\ call = "none"
    /\ args = NoArgs
    /\ qubo = EmptyQubo
    /\ offset = 0
    /\ raised = "none"
    /\ result = NoResult

BuildQueensGraph ==
    /\ call = "none"
    /\ problem.kind = "board"
    /\ call' = "build_queens_graph"
    /\ result' = build_queens_graph(problem.n)
    /\ UNCHANGED <<problem, args, qubo, offset, raised>>

NextBoard == BuildQueensGraph

Init ==
    \/ InitKnapsack \/ InitUnchecked \/ InitGraph \/ InitFiles
    \/ InitSamples \/ InitDimacs \/ InitBoard

Next ==
    \/ NextKnapsack \/ NextGraph \/ NextLoader
    \/ NextSamples \/ NextDimacs \/ NextBoard

Spec == Init /\ [][Next]_vars

(***************************************************************************)
(* Vocabulary of the knapsack claims.                                      *)
(***************************************************************************)
\* sum of lst[i] over the selected indices i (0-based) of x
RECURSIVE ListSum(_, _)
ListSum(lst, x) ==
    IF x = {} THEN 0
    ELSE LET i == CHOOSE ii \in x : TRUE
         IN  lst[i + 1] + ListSum(lst, x \ {i})

ItemCount == Len(problem.weights)
Items == 0..(ItemCount - 1)

\* the m the claims name: 2^m <= capacity < 2^(m+1)
ClaimM(capacity) ==
    CHOOSE m \in 0..capacity : 2 ^ m <= capacity /\ capacity < 2 ^ (m + 1)

\* the value sum_{k<m} 2^k*b_k + r*b_m of the bits set in b, a subset of 0..m
RECURSIVE BitValue(_, _, _)
BitValue(m, r, b) ==
    IF b = {} THEN 0
    ELSE LET k == CHOOSE kk \in b : TRUE
         IN  (IF k = m THEN r ELSE 2 ^ k) + BitValue(m, r, b \ {k})

\* the auxiliary variables n..n+m of the map build_knapsack_with_aux built
AuxBits == ItemCount..(ItemCount + aux_m(problem.capacity))

\* the value the auxiliary bits of b (variable indices n..n+m) stand for
AuxValue(b) ==
    BitValue(aux_m(problem.capacity), aux_remainder(problem.capacity),
             {i - ItemCount : i \in b})

AuxReturned == call = "build_knapsack_with_aux" /\ raised = "none"

Feasible(x) == ListSum(problem.weights, x) <= problem.capacity

\* the instances load_knapsack_data lets through: lists of one length, not
\* empty, every weight positive, capacity not below the smallest weight
LoaderValid ==
    /\ ItemCount >= 1
    /\ Len(problem.profits) = ItemCount
    /\ \A i \in Items : problem.weights[i + 1] >= 1
    /\ \E i \in Items : problem.weights[i + 1] <= problem.capacity

\* C1: with beta = 0 and alpha > 0 the map is the inequality penalty: every
\* item selection within the capacity has auxiliary bits with penalty 0, and
\* every selection above the capacity has penalty > 0 whatever the bits.
C1_PenaltyZeroIffFeasible ==
    (AuxReturned /\ args.beta = 0 /\ args.alpha > 0 /\ problem.capacity >= 1)
    => \A x \in SUBSET Items :
           /\ Feasible(x)
              => \E b \in SUBSET AuxBits : Energy(qubo, x \cup b) = 0
           /\ ~Feasible(x)
              => \A b \in SUBSET AuxBits : Energy(qubo, x \cup b) > 0

C1_Witness ==
    /\ AuxReturned /\ args.beta = 0 /\ problem.capacity >= 3
    /\ \E x \in SUBSET Items : x # {} /\ ~Feasible(x)
    /\ \E x \in SUBSET Items :
           /\ ListSum(problem.weights, x) = problem.capacity
           /\ \E b \in SUBSET AuxBits : Energy(qubo, x \cup b) = 0

\* C2: the values the m+1 auxiliary bits can take, with the m and the
\* remainder the compiler computed, are exactly the integers 0..capacity.
C2_SlackRangeExact ==
    AuxReturned
    => { BitValue(aux_m(problem.capacity), aux_remainder(problem.capacity), b) :
             b \in SUBSET (0..aux_m(problem.capacity)) }
       = 0..problem.capacity

C2_Witness ==
    /\ AuxReturned
    /\ aux_m(problem.capacity) = 2
    /\ aux_remainder(problem.capacity) = 2

\* C3: the map build_knapsack_with_aux returns has exactly the entries of the
\* closed form, with m = floor(log2(capacity)) and r = capacity + 1 - 2^m.
ClaimedAuxMap(weights, profits, capacity, alpha, beta) ==
    LET n == Len(weights)
        m == ClaimM(capacity)
        r == capacity + 1 - 2 ^ m
        keys == { <<i, j>> : i \in 0..(n - 1), j \in 0..(n + m) }
                \cup { <<n + i, n + j>> : i \in 0..m, j \in 0..m }
        w(i) == weights[i + 1]
        bit(i) == IF i = n + m THEN r ELSE 2 ^ (i - n)
    IN  [key \in {kk \in keys : kk[1] <= kk[2]} |->
            LET i == key[1]
                j == key[2]
            IN  IF j < n
                THEN IF i = j THEN - beta * profits[i + 1] + alpha * w(i) * w(i)
                     ELSE 2 * alpha * w(i) * w(j)
                ELSE IF i < n THEN - 2 * alpha * w(i) * bit(j)
                ELSE IF i = j THEN alpha * bit(i) * bit(i)
                ELSE 2 * alpha * bit(i) * bit(j)]

C3_AuxMapEntries ==
    AuxReturned
    => qubo = ClaimedAuxMap(problem.weights, problem.profits, problem.capacity,
                            args.alpha, args.beta)

C3_Witness ==
    /\ AuxReturned
    /\ ItemCount = 2
    /\ problem.capacity = 5
    /\ Cardinality(DOMAIN qubo) = 3 + 6 + 6

InTestInstance ==
    /\ AuxReturned
    /\ problem.weights = TestWeights
    /\ problem.profits = TestProfits
    /\ problem.capacity = TestCapacity
    /\ args.alpha = 1
    /\ args.beta = 1

\* C4 as stated: on the test instance m = 4, r = 11, (5,5) = 1, (8,8) = 121
\* and (4,8) = -198.
C4_AsStated ==
    InTestInstance
    => /\ aux_m(problem.capacity) = 4
       /\ aux_remainder(problem.capacity) = 11
       /\ qubo[<<5, 5>>] = 1
       /\ qubo[<<8, 8>>] = 121
       /\ qubo[<<4, 8>>] = -198

\* C4, amended: on the test instance m = 4 and r = 11, so the remainder bit
\* is variable n + m = 9: (5,5) = 1, (9,9) = r^2 = 121 and (4,9) = -2*9*11 =
\* -198, while (8,8) = 4^3 = 64 and (4,8) = -2*9*2^3 = -144.
C4_TestInstanceEntries ==
    InTestInstance
    => /\ aux_m(problem.capacity) = 4
       /\ aux_remainder(problem.capacity) = 11
       /\ qubo[<<5, 5>>] = 1
       /\ qubo[<<9, 9>>] = 121
       /\ qubo[<<4, 9>>] = -198
       /\ qubo[<<8, 8>>] = 64
       /\ qubo[<<4, 8>>] = -144

C4_Witness == InTestInstance /\ <<4, 9>> \in DOMAIN qubo

\* the assignments of all the variables of the map build_knapsack_with_aux built
AuxAssignments == { x \cup b : x \in SUBSET Items, b \in SUBSET AuxBits }

Weight(a) == ListSum(problem.weights, a \cap Items)
Profit(a) == ListSum(problem.profits, a \cap Items)

\* alpha*(sum(w*x) + slack(b) - capacity)^2 - beta*sum(p*x)
SlackForm(a) ==
    LET d == Weight(a) + AuxValue(a \ Items) - problem.capacity
    IN  args.alpha * d * d - args.beta * Profit(a)

\* alpha*(sum(w*x) - Y(b))^2 - beta*sum(p*x)
DifferenceForm(a) ==
    LET d == Weight(a) - AuxValue(a \ Items)
    IN  args.alpha * d * d - args.beta * Profit(a)

\* C5 as stated: the energy and alpha*(W + slack(b) - capacity)^2 - beta*P
\* differ by the same constant on every assignment.
C5_AsStated ==
    (AuxReturned /\ LoaderValid)
    => \A a \in AuxAssignments :
           Energy(qubo, a) - SlackForm(a) = Energy(qubo, {}) - SlackForm({})

\* C5, amended: the energy and alpha*(W - Y(b))^2 - beta*P differ by the same
\* constant on every assignment: the coefficients expand the squared form
\* sum(weight_i*x_i) - sum(bit_k*2^k) - bit_r*r, in which the capacity does
\* not occur.
C5_ExpandsDifferenceForm ==
    AuxReturned
    => \A a \in AuxAssignments, a2 \in {{}, AuxBits} :
           Energy(qubo, a) - DifferenceForm(a)
           = Energy(qubo, a2) - DifferenceForm(a2)

C5_Witness ==
    /\ AuxReturned
    /\ ItemCount = 2
    /\ problem.capacity = 5
    /\ \E a \in AuxAssignments :
           /\ a \cap Items # {} /\ Cardinality(a \ Items) >= 2
           /\ Weight(a) # AuxValue(a \ Items)
           /\ Energy(qubo, a) = DifferenceForm(a)

\* the model of the example: create_qubo with auxiliary bits returned, so
\* alpha = max(profits) + 1, beta = 1 and the offset is the capacity
ExampleCoefficients ==
    /\ call = "create_qubo" /\ args.aux = 1 /\ raised = "none"
    /\ ItemCount >= 1
    /\ Len(problem.profits) = ItemCount
    /\ problem.capacity >= 1

\* x is a feasible selection of greatest profit
Optimal(x) ==
    /\ Feasible(x)
    /\ \A y \in SUBSET Items :
           Feasible(y)
           => ListSum(problem.profits, y) <= ListSum(problem.profits, x)

\* C6 as stated: an optimal feasible selection with auxiliary bits that zero
\* the penalty has energy + capacity = 0.
C6_AsStated ==
    (ExampleCoefficients /\ LoaderValid)
    => \A x \in SUBSET Items, b \in SUBSET AuxBits :
           (Optimal(x) /\ AuxValue(b) = Weight(x))
           => Energy(qubo, x \cup b) + offset = 0

\* C6, amended: an optimal feasible selection with auxiliary bits that zero
\* the penalty has energy + capacity = capacity - beta * (its profit), which
\* is 0 only when the optimal profit equals capacity / beta.
C6_OffsetLeavesProfit ==
    ExampleCoefficients
    => \A x \in SUBSET Items, b \in SUBSET AuxBits :
           (Optimal(x) /\ AuxValue(b) = Weight(x))
           => /\ offset = problem.capacity
              /\ args.alpha = max(problem.profits) + 1
              /\ Energy(qubo, x \cup b) + offset
                 = problem.capacity - args.beta * Profit(x)

C6_Witness ==
    /\ ExampleCoefficients
    /\ \E x \in SUBSET Items, b \in SUBSET AuxBits :
           /\ Optimal(x) /\ AuxValue(b) = Weight(x)
           /\ Cardinality(x) = 2 /\ Cardinality(b) = 2
           /\ Energy(qubo, x \cup b) + offset # 0

(***************************************************************************)
(* Vocabulary of the graph claims.  A selection is the set of the variable *)
(* indices whose bit is 1.                                                 *)
(***************************************************************************)
NodeIndices == 0..(Cardinality(problem.nodes) - 1)

\* the node whose variable has index i: the (i+1)-th smallest node
NodeAt(i) ==
    CHOOSE v \in problem.nodes :
        Cardinality({u \in problem.nodes : u < v}) = i

Adjacent(u, v) == <<u, v>> \in problem.edges \/ <<v, u>> \in problem.edges

PairsIn(S) == {pr \in S \X S : pr[1] < pr[2]}

\* the pairs of selected nodes joined by an edge of the graph
LinkedPairs(S) ==
    {pr \in PairsIn(S) : Adjacent(NodeAt(pr[1]), NodeAt(pr[2]))}

\* the pairs of selected nodes that no edge joins
UnlinkedPairs(S) == PairsIn(S) \ LinkedPairs(S)

CliqueReturned == call = "build_clique_k" /\ raised = "none"

CliqueOffset == args.alpha * args.k * args.k
                + args.beta * ((args.k * (args.k - 1)) \div 2)

\* C7: the energy of the build_clique_k map plus alpha*k^2 + beta*k*(k-1)/2
\* is 0 on every set of k pairwise adjacent nodes, and on a set of k nodes
\* that is not a clique it is beta times the number (at least 1) of its
\* non-adjacent pairs.
C7_CliqueEnergyOnKSets ==
    call = "build_clique_k"
    => /\ raised = "none"
       /\ \A S \in SUBSET NodeIndices :
              Cardinality(S) = args.k
              => IF UnlinkedPairs(S) = {}
                 THEN Energy(qubo, S) + CliqueOffset = 0
                 ELSE /\ Energy(qubo, S) + CliqueOffset
                         = args.beta * Cardinality(UnlinkedPairs(S))
                      /\ Cardinality(UnlinkedPairs(S)) >= 1

C7_Witness ==
    /\ CliqueReturned
    /\ args.k = 2 /\ args.beta = 1 /\ args.alpha = 2
    /\ \E S \in SUBSET NodeIndices :
           /\ Cardinality(S) = 2 /\ UnlinkedPairs(S) = {}
           /\ Energy(qubo, S) + CliqueOffset = 0
    /\ \E S \in SUBSET NodeIndices :
           /\ Cardinality(S) = 2 /\ UnlinkedPairs(S) # {}
           /\ Energy(qubo, S) + CliqueOffset = 1

ColoringReturned == call = "build_graph_coloring" /\ raised = "none"

ColoringVars == 0..(Cardinality(problem.nodes) * args.num_colors - 1)

\* the colors the assignment a selects for the node of index idx
ColorsOf(a, idx) ==
    {color \in 0..(args.num_colors - 1) : idx * args.num_colors + color \in a}

\* every node has exactly one color and no edge joins two nodes of one color
ProperColoring(a) ==
    /\ \A idx \in NodeIndices : Cardinality(ColorsOf(a, idx)) = 1
    /\ \A pr \in LinkedPairs(NodeIndices) :
           ColorsOf(a, pr[1]) \cap ColorsOf(a, pr[2]) = {}

\* C8: with alpha > 0 and beta > 0 a proper coloring has energy exactly
\* -alpha*num_nodes, and every assignment that breaks the one-color rule or
\* the adjacency rule has strictly higher energy.
C8_ColoringEnergy ==
    (call = "build_graph_coloring" /\ args.alpha > 0 /\ args.beta > 0)
    => /\ raised = "none"
       /\ \A a \in SUBSET ColoringVars :
              IF ProperColoring(a)
              THEN Energy(qubo, a) = - args.alpha * Cardinality(problem.nodes)
              ELSE Energy(qubo, a) > - args.alpha * Cardinality(problem.nodes)

C8_Witness ==
    /\ ColoringReturned /\ args.beta > 0 /\ args.num_colors = 2
    /\ Cardinality(problem.nodes) = 3 /\ Cardinality(problem.edges) = 2
    /\ \E a \in SUBSET ColoringVars :
           ProperColoring(a) /\ Energy(qubo, a) + 3 * args.alpha = 0
    /\ \E a \in SUBSET ColoringVars :
           /\ \A idx \in NodeIndices : Cardinality(ColorsOf(a, idx)) = 1
           /\ ~ProperColoring(a)
           /\ Energy(qubo, a) + 3 * args.alpha = args.beta

CoverReturned == call = "build_min_vertex_cover" /\ raised = "none"

\* every edge has at least one endpoint in S
IsCover(S) == LinkedPairs(NodeIndices \ S) = {}

MinimumCover(S) ==
    /\ IsCover(S)
    /\ \A T \in SUBSET NodeIndices :
           IsCover(T) => Cardinality(S) <= Cardinality(T)

\* C9 as stated: for alpha > beta > 0 and a graph with an edge, the energy
\* of a minimum vertex cover plus 2*beta*num_edges is 0.
C9_AsStated ==
    (CoverReturned /\ args.alpha > args.beta /\ args.beta > 0
        /\ problem.edges # {})
    => \A S \in SUBSET NodeIndices :
           MinimumCover(S)
           => Energy(qubo, S) + 2 * args.beta * Cardinality(problem.edges) = 0

\* C9, amended: for alpha > beta > 0 and a graph with an edge, the energy of
\* a minimum vertex cover C plus 2*beta*num_edges is
\* beta*|C| + (2*beta - alpha)*num_edges; with alpha = 2*beta (the defaults
\* 2 and 1) that is beta*|C|, which is positive.
C9_CoverEnergyPlusOffset ==
    (call = "build_min_vertex_cover" /\ args.alpha > args.beta
        /\ args.beta > 0 /\ problem.edges # {})
    => /\ raised = "none"
       /\ \A S \in SUBSET NodeIndices :
              MinimumCover(S)
              => /\ Energy(qubo, S) + 2 * args.beta * Cardinality(problem.edges)
                    = args.beta * Cardinality(S)
                      + (2 * args.beta - args.alpha) * Cardinality(problem.edges)
                 /\ args.alpha = 2 * args.beta
                    => Energy(qubo, S)
                       + 2 * args.beta * Cardinality(problem.edges) > 0

C9_Witness ==
    /\ CoverReturned /\ args.alpha = 2 /\ args.beta = 1
    /\ Cardinality(problem.edges) = 2
    /\ \E S \in SUBSET NodeIndices :
           /\ MinimumCover(S) /\ Cardinality(S) = 1
           /\ Energy(qubo, S) + 2 * args.beta * Cardinality(problem.edges) = 1

QueenReturned == call = "build_n_queen" /\ raised = "none"

\* C10: the energy of the build_n_queen map plus alpha*n^2 is
\* alpha*(|S| - n)^2 + alpha*(edges inside S); it is 0 exactly when S has n
\* nodes no two of which are linked, and positive otherwise.
C10_QueenEnergy ==
    call = "build_n_queen"
    => /\ raised = "none"
       /\ \A S \in SUBSET NodeIndices :
              LET total == Energy(qubo, S) + args.alpha * args.n * args.n
                  d == Cardinality(S) - args.n
              IN  /\ total = args.alpha * d * d
                             + args.alpha * Cardinality(LinkedPairs(S))
                  /\ IF Cardinality(S) = args.n /\ LinkedPairs(S) = {}
                     THEN total = 0
                     ELSE total > 0

C10_Witness ==
    /\ QueenReturned /\ args.n = 2
    /\ Cardinality(problem.nodes) = 3
    /\ \E S \in SUBSET NodeIndices :
           /\ Cardinality(S) = 2 /\ LinkedPairs(S) = {}
           /\ Energy(qubo, S) + args.alpha * args.n * args.n = 0
    /\ \E S \in SUBSET NodeIndices :
           /\ Cardinality(S) = 2 /\ LinkedPairs(S) # {}
           /\ Energy(qubo, S) + args.alpha * args.n * args.n = args.alpha

(***************************************************************************)
(* The coefficient maps of the graph compilers, entry by entry.            *)
(***************************************************************************)
\* C11 as stated: for alpha > 0 the map of build_clique_k with beta = 0 or on
\* a graph with no edges, plus alpha*k^2, has energy alpha*(s - k)^2 on an
\* assignment with s true variables, its minimum is exactly 0, attained
\* exactly by the assignments with k true variables, and every other
\* assignment has energy at least alpha.
C11_AsStated ==
    (CliqueReturned /\ (args.beta = 0 \/ problem.edges = {})
        /\ problem.nodes # {})
    => /\ \A S \in SUBSET NodeIndices :
              LET total == Energy(qubo, S) + args.alpha * args.k * args.k
                  d == Cardinality(S) - args.k
              IN  /\ total = args.alpha * d * d
                  /\ (total = 0) = (Cardinality(S) = args.k)
                  /\ Cardinality(S) # args.k => total >= args.alpha
       /\ \E S \in SUBSET NodeIndices :
              Energy(qubo, S) + args.alpha * args.k * args.k = 0

\* C11, amended: for alpha > 0 the map of build_clique_k with beta = 0 or on
\* a graph with no edges, plus alpha*k^2, has energy alpha*(s - k)^2 on an
\* assignment with s true variables: 0 exactly on the assignments with k
\* true variables and at least alpha on every other.  Its minimum is 0 when
\* k is at most the number n of nodes, and alpha*(k - n)^2 when k > n.
C11_CompletenessEnergy ==
    (call = "build_clique_k" /\ (args.beta = 0 \/ problem.edges = {}))
    => /\ raised = "none"
       /\ \A S \in SUBSET NodeIndices :
              LET total == Energy(qubo, S) + args.alpha * args.k * args.k
                  d == Cardinality(S) - args.k
              IN  /\ total = args.alpha * d * d
                  /\ (total = 0) = (Cardinality(S) = args.k)
                  /\ Cardinality(S) # args.k => total >= args.alpha
       /\ LET n == Cardinality(problem.nodes)
              least == IF args.k <= n THEN 0
                       ELSE args.alpha * (args.k - n) * (args.k - n)
          IN  /\ \E S \in SUBSET NodeIndices :
                     Energy(qubo, S) + args.alpha * args.k * args.k = least
              /\ \A S \in SUBSET NodeIndices :
                     Energy(qubo, S) + args.alpha * args.k * args.k >= least

C11_Witness ==
    /\ CliqueReturned /\ args.beta = 0 /\ args.alpha = 2 /\ args.k = 2
    /\ Cardinality(problem.nodes) = 3 /\ problem.edges # {}
    /\ \E S \in SUBSET NodeIndices :
           Cardinality(S) = 2 /\ Energy(qubo, S) + 8 = 0
    /\ \E S \in SUBSET NodeIndices :
           Cardinality(S) = 3 /\ Energy(qubo, S) + 8 = 2

\* the map C12 describes
ClaimedCliqueMap(k, alpha, beta) ==
    [key \in {kk \in NodeIndices \X NodeIndices : kk[1] <= kk[2]} |->
        IF key[1] = key[2] THEN alpha * (1 - 2 * k)
        ELSE IF Adjacent(NodeAt(key[1]), NodeAt(key[2])) THEN 2 * alpha - beta
        ELSE 2 * alpha]

\* C12: the map of build_clique_k has exactly the keys (i,j), 0 <= i <= j < n;
\* every diagonal entry is alpha*(1 - 2k); an off-diagonal entry is
\* 2*alpha - beta when the two nodes are adjacent and 2*alpha otherwise.
C12_CliqueMapEntries ==
    call = "build_clique_k"
    => /\ raised = "none"
       /\ qubo = ClaimedCliqueMap(args.k, args.alpha, args.beta)

C12_Witness ==
    /\ CliqueReturned /\ args.beta = 1 /\ args.k = 2
    /\ Cardinality(problem.nodes) = 3 /\ Cardinality(problem.edges) = 2
    /\ Cardinality(DOMAIN qubo) = 6
    /\ \E key \in DOMAIN qubo : qubo[key] = 2 * args.alpha - 1
    /\ \E key \in DOMAIN qubo : qubo[key] = 2 * args.alpha

\* the map C13 describes
ClaimedColoringMap(c, alpha, beta) ==
    LET n == Cardinality(problem.nodes)
        diagonal == { <<p, p>> : p \in 0..(n * c - 1) }
        one_hot == { <<v * c + a, v * c + b>> :
                        <<v, a, b>> \in { t \in NodeIndices \X (0..(c - 1)) \X (0..(c - 1)) :
                                            t[2] < t[3] } }
        same_color == { <<pr[1] * c + a, pr[2] * c + a>> :
                            <<pr, a>> \in LinkedPairs(NodeIndices) \X (0..(c - 1)) }
    IN  [key \in diagonal \cup one_hot \cup same_color |->
            IF key \in diagonal THEN - alpha
            ELSE IF key \in one_hot THEN 2 * alpha
            ELSE beta]

\* C13: the map of build_graph_coloring has exactly a diagonal entry -alpha
\* for every variable 0..n*c-1, an entry 2*alpha for every pair of colors
\* a < b of one node, an entry beta at (u*c+a, v*c+a) for every edge between
\* node indices u < v and every color a, and no other key.
C13_ColoringMapEntries ==
    call = "build_graph_coloring"
    => /\ raised = "none"
       /\ qubo = ClaimedColoringMap(args.num_colors, args.alpha, args.beta)

C13_Witness ==
    /\ ColoringReturned /\ args.num_colors = 2 /\ args.beta = 1
    /\ Cardinality(problem.nodes) = 3 /\ Cardinality(problem.edges) = 2
    /\ Cardinality(DOMAIN qubo) = 6 + 3 + 4

\* the map C14 describes
ClaimedCoverMap(alpha, beta) ==
    LET diagonal == { <<i, i>> : i \in NodeIndices }
    IN  [key \in diagonal \cup LinkedPairs(NodeIndices) |->
            IF key[1] = key[2]
            THEN beta - alpha * Cardinality({ v \in problem.nodes :
                                                Adjacent(NodeAt(key[1]), v) })
            ELSE alpha]

\* C14: the map of build_min_vertex_cover has exactly one diagonal entry per
\* node, beta - alpha*degree(node) (-7 for a node of degree 4 with alpha = 2
\* and beta = 1), exactly one entry alpha at (min index, max index) for every
\* edge, and no entry for a pair of nodes that are not adjacent.
C14_CoverMapEntries ==
    call = "build_min_vertex_cover"
    => /\ raised = "none"
       /\ qubo = ClaimedCoverMap(args.alpha, args.beta)
       /\ (args.alpha = 2 /\ args.beta = 1)
          => \A i \in NodeIndices :
                 Cardinality({ v \in problem.nodes : Adjacent(NodeAt(i), v) }) = 4
                 => qubo[<<i, i>>] = -7

C14_Witness ==
    /\ CoverReturned /\ args.alpha = 2 /\ args.beta = 1
    /\ problem = StarGraph
    /\ qubo[<<2, 2>>] = -7
    /\ Cardinality(DOMAIN qubo) = 5 + 4
    /\ <<0, 1>> \notin DOMAIN qubo

(***************************************************************************)
(* build_knapsack entry by entry, and what holds of all six compilers.     *)
(***************************************************************************)
KnapsackReturned == call = "build_knapsack" /\ raised = "none"

\* the map C15 describes
ClaimedKnapsackMap(weights, profits, capacity, alpha, beta) ==
    LET n == Len(weights)
    IN  [key \in {kk \in (0..(n - 1)) \X (0..(n - 1)) : kk[1] <= kk[2]} |->
            LET wi == weights[key[1] + 1]
                wj == weights[key[2] + 1]
            IN  IF key[1] = key[2]
                THEN - beta * profits[key[1] + 1] + alpha * wi * wi
                     - 2 * alpha * capacity * wi
                ELSE 2 * alpha * wi * wj]

\* C15: for n items (as many profits as weights) the map of build_knapsack
\* has exactly the entries (i,i) = -beta*p_i + alpha*w_i^2 - 2*alpha*C*w_i and
\* (i,j) = 2*alpha*w_i*w_j for i < j, and for every item selection x the
\* energy plus alpha*C^2 equals alpha*(sum(w_i*x_i) - C)^2 - beta*sum(p_i*x_i).
C15_KnapsackMapAndEnergy ==
    (call = "build_knapsack" /\ Len(problem.profits) = ItemCount)
    => /\ raised = "none"
       /\ qubo = ClaimedKnapsackMap(problem.weights, problem.profits,
                                    problem.capacity, args.alpha, args.beta)
       /\ \A x \in SUBSET Items :
              LET d == ListSum(problem.weights, x) - problem.capacity
              IN  Energy(qubo, x)
                  + args.alpha * problem.capacity * problem.capacity
                  = args.alpha * d * d
                    - args.beta * ListSum(problem.profits, x)

C15_Witness ==
    /\ KnapsackReturned /\ args.alpha = 2 /\ args.beta = 1
    /\ problem.weights = <<1, 2>> /\ problem.capacity = 4
    /\ qubo[<<0, 1>>] = 8
    /\ qubo[<<1, 1>>] = - 1 + 8 - 32
    /\ Energy(qubo, {0, 1}) + 32 = 2 * 1 - 2

\* the compilers and the number of variables of the compilation of the state
Compilers ==
    {"build_clique_k", "build_graph_coloring", "build_n_queen",
     "build_min_vertex_cover", "build_knapsack", "build_knapsack_with_aux"}

VariableCount ==
    IF call = "build_graph_coloring"
    THEN Cardinality(problem.nodes) * args.num_colors
    ELSE IF call = "build_knapsack" THEN Len(problem.weights)
    ELSE IF call = "build_knapsack_with_aux"
    THEN Len(problem.weights) + ClaimM(problem.capacity) + 1
    ELSE Cardinality(problem.nodes)

\* C16: every key (i,j) of the map a compiler returns satisfies
\* 0 <= i <= j < V, V the number of variables of the compilation (nodes;
\* nodes*num_colors; items; items + m + 1), so an off-diagonal key has i < j.
C16_KeysWithinVariables ==
    (call \in Compilers /\ raised = "none")
    => \A key \in DOMAIN qubo :
           /\ 0 <= key[1] /\ key[1] <= key[2] /\ key[2] < VariableCount
           /\ key[1] # key[2] => key[1] < key[2]

C16_Witness ==
    /\ CoverReturned
    /\ \E e \in problem.edges : e[1] > e[2]
    /\ Cardinality(problem.nodes) = 3 /\ Cardinality(problem.edges) = 3
    /\ DOMAIN qubo = {kk \in NodeIndices \X NodeIndices : kk[1] <= kk[2]}

\* the compilation of the state has no entity: a graph with no node, or
\* empty weight and profit lists with a capacity of at least 1
EmptyEntitySet ==
    IF problem.kind = "graph" THEN problem.nodes = {}
    ELSE /\ problem.weights = <<>> /\ problem.profits = <<>>
         /\ problem.capacity >= 1

\* C17 as stated: on an empty entity set every compiler returns a map with
\* no keys.
C17_AsStated ==
    (call \in Compilers /\ EmptyEntitySet)
    => raised = "none" /\ DOMAIN qubo = {}

\* C17, amended: on an empty entity set build_clique_k, build_graph_coloring,
\* build_n_queen, build_min_vertex_cover and build_knapsack return a map with
\* no keys; build_knapsack_with_aux on empty lists with capacity >= 1 returns
\* the map of its m + 1 auxiliary variables alone, the keys (i,j) with
\* 0 <= i <= j <= m, which is never empty: it holds (m,m) = alpha*r^2.
C17_EmptyEntitySet ==
    (call \in Compilers /\ EmptyEntitySet)
    => /\ raised = "none"
       /\ call # "build_knapsack_with_aux" => DOMAIN qubo = {}
       /\ call = "build_knapsack_with_aux"
          => LET m == ClaimM(problem.capacity)
                 r == problem.capacity + 1 - 2 ^ m
             IN  /\ DOMAIN qubo
                    = {kk \in (0..m) \X (0..m) : kk[1] <= kk[2]}
                 /\ qubo[<<m, m>>] = args.alpha * r * r

C17_Witness ==
    /\ AuxReturned /\ EmptyEntitySet
    /\ problem.capacity = 5 /\ args.alpha = 2
    /\ Cardinality(DOMAIN qubo) = 6
    /\ qubo[<<2, 2>>] = 8

(***************************************************************************)
(* Vocabulary of the loader claims.                                        *)
(***************************************************************************)
LoaderCalled == call = "load_knapsack_data"

\* the integers of the lines of a file, in the order of the lines
IntegersOf(file) ==
    LET ints == SelectSeq(file.lines, LAMBDA line : line.kind = "int")
    IN  [i \in 1..Len(ints) |-> ints[i].value]

\* every file exists and every line of it is an integer or blank
FilesRead ==
    \A file \in {problem.capacity_file, problem.weights_file,
                  problem.profits_file} :
        /\ file.exists
        /\ \A i \in 1..Len(file.lines) : file.lines[i].kind # "text"

\* the seven conditions of C18 in its order, on the lists read from the
\* files (the capacity is the first integer of the capacity file)
LoaderConditions ==
    LET capacity_list == IntegersOf(problem.capacity_file)
        weights == IntegersOf(problem.weights_file)
        profits == IntegersOf(problem.profits_file)
        has_capacity == capacity_list # <<>>
    IN  << capacity_list = <<>>,
           weights = <<>>,
           profits = <<>>,
           Len(weights) # Len(profits),
           \E i \in 1..Len(weights) : weights[i] <= 0,
           has_capacity /\ capacity_list[1] < 0,
           has_capacity /\ weights # <<>>
               /\ \A i \in 1..Len(weights) : capacity_list[1] < weights[i] >>

LoaderErrors ==
    << CapacityEmpty, WeightsEmpty, ProfitsEmpty, DifferentLength,
       NonPositiveWeight, NegativeCapacity, CapacityBelowMinWeight >>

\* C18: load_knapsack_data raises the ValueError of the earliest of the
\* seven conditions (capacity list empty, weights empty, profits empty,
\* lengths differ, a weight <= 0, capacity < 0, capacity < min(weights)) that
\* holds, and when none holds it returns (first integer of the capacity
\* file, weights, profits) unchanged.
C18_ValidationOrder ==
    (LoaderCalled /\ FilesRead)
    => LET failed == { i \in 1..7 : LoaderConditions[i] }
       IN  IF failed # {}
           THEN /\ raised
                   = LoaderErrors[CHOOSE i \in failed : \A j \in failed : i <= j]
                /\ result = NoResult
           ELSE /\ raised = "none"
                /\ result = << IntegersOf(problem.capacity_file)[1],
                               IntegersOf(problem.weights_file),
                               IntegersOf(problem.profits_file) >>

C18_Witness ==
    /\ LoaderCalled /\ FilesRead
    /\ LoaderConditions[4] /\ LoaderConditions[5] /\ LoaderConditions[6]
    /\ LoaderConditions[7]
    /\ Len(problem.capacity_file.lines) = 2
    /\ problem.capacity_file.lines[1].kind = "blank"
    /\ raised = DifferentLength

(***************************************************************************)
(* The knapsack compilers on inputs the loader would refuse.               *)
(***************************************************************************)
\* the lists differ in length, or a weight is not positive
MalformedLists ==
    \/ Len(problem.weights) # Len(problem.profits)
    \/ \E i \in 1..Len(problem.weights) : problem.weights[i] <= 0

\* C19 as stated: build_knapsack and build_knapsack_with_aux on lists of
\* different lengths or with a weight that is not positive end in an error,
\* never return a map, and raise before any entry is written to the map.
C19_AsStated ==
    (call \in {"build_knapsack", "build_knapsack_with_aux"} /\ MalformedLists
        /\ problem.weights # <<>> /\ problem.capacity >= 1)
    => raised # "none" /\ qubo = EmptyQubo

\* C20: build_knapsack_with_aux called with capacity <= 0 ends in an error
\* and returns no coefficient map, whatever the weights and profits.
C20_NonPositiveCapacityRaises ==
    (call = "build_knapsack_with_aux" /\ problem.capacity <= 0)
    => raised # "none" /\ qubo = EmptyQubo

C20_Witness ==
    /\ call = "build_knapsack_with_aux"
    /\ problem.capacity = 0
    /\ Len(problem.weights) = 2 /\ Len(problem.profits) = 1
    /\ raised = "ValueError"

(***************************************************************************)
(* The composite index of build_graph_coloring.                            *)
(***************************************************************************)
\* the variable indices that have a linear term in the map
LinearVariables == { key[1] : key \in {kk \in DOMAIN qubo : kk[1] = kk[2]} }

\* C21: the variable of node index v and color a is v*num_colors + a, and
\* integer division and remainder by num_colors give v and a back, so the
\* n*num_colors pairs (node, color) have n*num_colors distinct variables.
C21_CompositeIndexInverts ==
    ColoringReturned
    => LET c == args.num_colors
           pairs == NodeIndices \X (0..(c - 1))
       IN  /\ \A pr \in pairs :
                  /\ pr[1] * c + pr[2] \in LinearVariables
                  /\ node_idx(pr[1] * c + pr[2], c) = pr[1]
                  /\ color_idx(pr[1] * c + pr[2], c) = pr[2]
           /\ { <<node_idx(pos, c), color_idx(pos, c)>> : pos \in LinearVariables }
              = pairs
           /\ Cardinality(LinearVariables) = Cardinality(pairs)

C21_Witness ==
    /\ ColoringReturned /\ args.num_colors = 3
    /\ Cardinality(problem.nodes) = 2
    /\ LinearVariables = 0..5
    /\ node_idx(5, 3) = 1 /\ color_idx(5, 3) = 2

(***************************************************************************)
(* The search for a valid sample.                                          *)
(***************************************************************************)
\* the items a sample selects: the item variables (index < n) with value 1
SelectedItems(sample) ==
    { i \in 0..(Len(problem.weights) - 1) :
        i + 1 <= Len(sample) /\ sample[i + 1] = 1 }

\* the positions, in iteration order, of the samples within the capacity
ValidSamples ==
    { s \in 1..Len(problem.samples_set) :
        ListSum(problem.weights, SelectedItems(problem.samples_set[s]))
        <= problem.capacity }

\* C22: find_valid_knapsack_solution returns the earliest sample whose
\* weight over the selected item bits (auxiliary bits left out) is within
\* the capacity, with that weight and the profit of the selected items;
\* every sample before it exceeds the capacity; with no such sample it
\* returns None.
C22_FirstValidSample ==
    call = "find_valid_knapsack_solution"
    => /\ raised = "none"
       /\ IF ValidSamples = {}
          THEN result = None
          ELSE LET first == CHOOSE s \in ValidSamples :
                                \A t \in ValidSamples : s <= t
                   sample == problem.samples_set[first]
               IN  /\ result = << sample,
                                  ListSum(problem.weights, SelectedItems(sample)),
                                  ListSum(problem.profits, SelectedItems(sample)) >>
                   /\ result[2] <= problem.capacity
                   /\ \A t \in 1..(first - 1) :
                          ListSum(problem.weights,
                                  SelectedItems(problem.samples_set[t]))
                          > problem.capacity

C22_Witness ==
    /\ call = "find_valid_knapsack_solution"
    /\ problem.weights = <<2, 1>> /\ problem.profits = <<1, 2>>
    /\ problem.capacity = 2
    /\ problem.samples_set = << <<1, 1>>, <<0, 1>> >>
    /\ result = << <<0, 1>>, 1, 2 >>

(***************************************************************************)
(* The map does not depend on how the graph was put together.              *)
(***************************************************************************)
\* the graph of the state with every edge reported from its smaller node
Ascending ==
    [problem EXCEPT !.edges =
        { IF e[1] < e[2] THEN e ELSE <<e[2], e[1]>> : e \in problem.edges }]

\* the graph of the state with every edge reported from its larger node
Descending ==
    [problem EXCEPT !.edges =
        { IF e[1] > e[2] THEN e ELSE <<e[2], e[1]>> : e \in problem.edges }]

\* the compilation of the state done again on the graph g
Recompiled(g) ==
    IF call = "build_clique_k"
    THEN build_clique_k(g, args.k, args.alpha, args.beta)
    ELSE IF call = "build_graph_coloring"
    THEN build_graph_coloring(g, args.num_colors, args.alpha, args.beta)
    ELSE IF call = "build_n_queen" THEN build_n_queen(g, args.n, args.alpha)
    ELSE build_min_vertex_cover(g, args.alpha, args.beta)

\* C23: the map a graph compiler returns depends only on the node set, the
\* edge set and the numeric parameters: the same graph with its edges
\* reported in another orientation (and so met in another order) compiles
\* to the same map, key for key and value for value.
C23_MapIgnoresOrientation ==
    call \in {"build_clique_k", "build_graph_coloring", "build_n_queen",
              "build_min_vertex_cover"}
    => /\ Recompiled(Ascending) = [qubo |-> qubo, raised |-> raised]
       /\ Recompiled(Descending) = [qubo |-> qubo, raised |-> raised]

C23_Witness ==
    /\ ColoringReturned /\ args.num_colors = 2 /\ args.beta = 1
    /\ problem.edges = {<<3, 1>>, <<2, 3>>}
    /\ Ascending # problem /\ Descending # problem
    /\ qubo[<<0, 4>>] = 1 /\ qubo[<<3, 5>>] = 1

(***************************************************************************)
(* The DIMACS reader.                                                      *)
(***************************************************************************)
DimacsLineNumbers == 1..Len(problem.file.lines)

\* the lines whose first token is "e" and that are not comments
EdgeLineNumbers ==
    { i \in DimacsLineNumbers :
        /\ problem.file.lines[i].tokens # <<>>
        /\ problem.file.lines[i].tokens[1] = "e" }

\* an "e" line with other than three tokens or an endpoint that is no integer
BadEdgeLine(i) ==
    LET parts == problem.file.lines[i].tokens
    IN  \/ Len(parts) # 3
        \/ parts[2] \notin IntTokens
        \/ parts[3] \notin IntTokens

\* the undirected edges a graph holds, each as the set of its endpoints
Undirected(edges) == { {e[1], e[2]} : e \in edges }

\* C24 as stated: read_dimacs_graph passes over comment lines, empty lines
\* and lines that are no edge lines without raising, raises ValueError for
\* an "e" line without exactly three tokens or with an endpoint that is no
\* integer, and otherwise returns the graph whose edges are exactly those
\* the "e" lines list.
C24_AsStated ==
    (call = "read_dimacs_graph" /\ problem.file.exists)
    => IF \E i \in EdgeLineNumbers : BadEdgeLine(i)
       THEN raised \in {MalformedEdge, InvalidEndpoints}
       ELSE /\ raised = "none"
            /\ Undirected(result.edges)
               = { { int(problem.file.lines[i].tokens[2]),
                     int(problem.file.lines[i].tokens[3]) } :
                       i \in EdgeLineNumbers }

(***************************************************************************)
(* The margin of the clique map.                                           *)
(***************************************************************************)
\* the energy of a selection plus the offset alpha*k^2 + beta*k*(k-1)/2
CliqueTotal(S) == Energy(qubo, S) + CliqueOffset

\* a selection of exactly k pairwise adjacent nodes
IsKClique(S) == Cardinality(S) = args.k /\ UnlinkedPairs(S) = {}

\* what C25 says of the returned map
CliqueMargin ==
    /\ \A S \in SUBSET NodeIndices :
           /\ CliqueTotal(S) >= 0
           /\ (CliqueTotal(S) = 0) = IsKClique(S)
    /\ (\E S \in SUBSET NodeIndices : IsKClique(S))
       = (\E S \in SUBSET NodeIndices :
             /\ CliqueTotal(S) = 0
             /\ \A T \in SUBSET NodeIndices : CliqueTotal(T) >= 0)
    /\ \A S, T \in SUBSET NodeIndices :
           (IsKClique(T) /\ UnlinkedPairs(S) = {} /\ Cardinality(S) > args.k)
           => Energy(qubo, S) >= Energy(qubo, T)

\* C25 as stated: with alpha > beta*k and beta > 0 the energy plus offset is
\* >= 0 for every selection and 0 exactly for the k-cliques, for every k.
C25_AsStated ==
    (CliqueReturned /\ args.beta > 0 /\ args.alpha > args.beta * args.k)
    => CliqueMargin

\* C25: for build_clique_k with k >= 1, beta > 0 and alpha > beta*k the
\* energy plus offset alpha*k^2 + beta*k*(k-1)/2 is >= 0 for every node
\* selection and 0 exactly for the k-cliques, the ground energy is 0 iff the
\* graph has a k-clique, and a larger clique never has lower energy than a
\* k-clique.
C25_MarginForPositiveK ==
    (call = "build_clique_k" /\ args.k >= 1 /\ args.beta > 0
        /\ args.alpha > args.beta * args.k)
    => raised = "none" /\ CliqueMargin

\* a triangle compiled for k = 2: an edge has total 0, the triangle total 1
C25_Witness ==
    /\ CliqueReturned /\ args.k = 2 /\ args.beta = 1 /\ args.alpha = 3
    /\ \E S \in SUBSET NodeIndices : IsKClique(S) /\ CliqueTotal(S) = 0
    /\ \E S \in SUBSET NodeIndices :
           /\ Cardinality(S) = 3 /\ UnlinkedPairs(S) = {}
           /\ CliqueTotal(S) = 1

(***************************************************************************)
(* The minimisers of the vertex cover map.                                 *)
(***************************************************************************)
\* no selection has lower energy than S
Minimises(S) ==
    \A T \in SUBSET NodeIndices : Energy(qubo, S) <= Energy(qubo, T)

\* C26: for build_min_vertex_cover with 0 < beta < alpha every selection
\* that minimises the energy of the map is a vertex cover, and no vertex
\* cover of the graph has fewer nodes.
C26_MinimisersAreMinimumCovers ==
    (call = "build_min_vertex_cover" /\ 0 < args.beta
        /\ args.beta < args.alpha)
    => /\ raised = "none"
       /\ \A S \in SUBSET NodeIndices : Minimises(S) => MinimumCover(S)

\* a graph of two edges that one node covers: that node alone minimises, and
\* a cover of two nodes has higher energy
C26_Witness ==
    /\ CoverReturned /\ args.beta = 1 /\ args.alpha = 2
    /\ Cardinality(problem.edges) = 2
    /\ \E S \in SUBSET NodeIndices :
           /\ Minimises(S) /\ Cardinality(S) = 1 /\ IsCover(S)
           /\ \E T \in SUBSET NodeIndices :
                  /\ IsCover(T) /\ Cardinality(T) = 2
                  /\ Energy(qubo, T) > Energy(qubo, S)

(***************************************************************************)
(* The attack graph of the queens.                                         *)
(***************************************************************************)
Squares == 0..(problem.n * problem.n - 1)

Abs(d) == IF d < 0 THEN -d ELSE d

\* two squares share a row, a column or a diagonal
Attack(a, b) ==
    LET r1 == a \div problem.n
        c1 == a % problem.n
        r2 == b \div problem.n
        c2 == b % problem.n
    IN  r1 = r2 \/ c1 = c2 \/ Abs(r1 - r2) = Abs(c1 - c2)

AttackPairs == { {a, b} : a, b \in Squares } \ { {a} : a \in Squares }

\* C27: for n >= 1 build_queens_graph(n) returns a graph whose nodes are
\* 0 .. n^2 - 1 and whose edges are exactly the pairs of distinct squares
\* that attack each other, each pair once.
C27_QueensGraphIsAttackGraph ==
    (call = "build_queens_graph" /\ problem.n >= 1)
    => /\ raised = "none"
       /\ result[1].nodes = Squares
       /\ Undirected(result[1].edges)
          = { pr \in AttackPairs : \A a, b \in pr : Attack(a, b) }
       /\ \A e \in result[1].edges :
              e[1] # e[2] /\ <<e[2], e[1]>> \notin result[1].edges

\* the board of 4: 16 squares and 76 attacking pairs, a knight's move apart
\* squares not among them
C27_Witness ==
    /\ call = "build_queens_graph" /\ problem.n = 4
    /\ Cardinality(result[1].nodes) = 16
    /\ Cardinality(result[1].edges) = 76
    /\ {0, 15} \in Undirected(result[1].edges)
    /\ {0, 6} \notin Undirected(result[1].edges)

(***************************************************************************)
(* The energy of the auxiliary-bit map, term by term.                      *)
(***************************************************************************)
\* Y(b) = sum_{k<m} 2^k*b_k + r*b_m with 2^m <= capacity < 2^(m+1) and
\* r = capacity + 1 - 2^m, for the auxiliary variables b (indices n..n+m)
PackedWeight(b) ==
    LET m == ClaimM(problem.capacity)
    IN  BitValue(m, problem.capacity + 1 - 2 ^ m, {i - ItemCount : i \in b})

\* C28: on every assignment of item bits and auxiliary bits the energy of the
\* build_knapsack_with_aux map is exactly
\* alpha*(sum(weights*x) - Y(b))^2 - beta*sum(profits*x), with no constant
\* term; the variables are the n items and the m + 1 auxiliary bits, and the
\* all-zero assignment has energy 0.
C28_EnergyIsDifferenceSquare ==
    AuxReturned
    => /\ \A a \in SUBSET (0..(ItemCount + ClaimM(problem.capacity))) :
              LET d == Weight(a) - PackedWeight(a \ Items)
              IN  Energy(qubo, a) = args.alpha * d * d - args.beta * Profit(a)
       /\ Energy(qubo, {}) = 0
       /\ \A key \in DOMAIN qubo :
              key[2] <= ItemCount + ClaimM(problem.capacity)

\* capacity 5 (m = 2, r = 2) with two items: item 0 alone with the bits 1 and
\* r set has energy alpha*(w0 - 4)^2 - beta*p0
C28_Witness ==
    /\ AuxReturned /\ ItemCount = 2 /\ problem.capacity = 5
    /\ args.alpha = 2 /\ args.beta = 1
    /\ problem.weights[1] = 2 /\ problem.profits[1] = 1
    /\ PackedWeight({3, 4}) = 4
    /\ Energy(qubo, {0, 3, 4}) = 2 * (2 - 4) * (2 - 4) - 1

(***************************************************************************)
(* The constant that completes the vertex cover penalty.                   *)
(***************************************************************************)
\* the edges with neither endpoint in S
Uncovered(S) == LinkedPairs(NodeIndices \ S)

\* C29: for every selection S the energy of the build_min_vertex_cover map
\* plus alpha*num_edges is beta*|S| + alpha*(number of edges with neither
\* endpoint selected); on a graph with an edge alpha*num_edges is
\* 2*beta*num_edges only when alpha = 2*beta.
C29_CoverEnergyPlusAlphaEdges ==
    call = "build_min_vertex_cover"
    => /\ raised = "none"
       /\ \A S \in SUBSET NodeIndices :
              Energy(qubo, S) + args.alpha * Cardinality(problem.edges)
              = args.beta * Cardinality(S)
                + args.alpha * Cardinality(Uncovered(S))
       /\ problem.edges # {}
          => (args.alpha * Cardinality(problem.edges)
                 = 2 * args.beta * Cardinality(problem.edges))
             = (args.alpha = 2 * args.beta)

\* a triangle with alpha = 3, beta = 1: one selected node leaves one edge
\* uncovered, 1 + 3 in all, and 3*3 is not 2*1*3
C29_Witness ==
    /\ CoverReturned /\ args.alpha = 3 /\ args.beta = 1
    /\ Cardinality(problem.nodes) = 3 /\ Cardinality(problem.edges) = 3
    /\ \E S \in SUBSET NodeIndices :
           /\ Cardinality(S) = 1 /\ Cardinality(Uncovered(S)) = 1
           /\ Energy(qubo, S) + 9 = 4

(***************************************************************************)
(* What the loader lets through to the compilers.                          *)
(***************************************************************************)
LoaderReturned == LoaderCalled /\ raised = "none"

\* C30: when load_knapsack_data returns, the weights and profits it returns
\* are not empty and of one length, every weight is >= 1 and the capacity is
\* >= the smallest weight, so >= 1: build_knapsack_with_aux takes the
\* logarithm of the capacity it is handed and returns a map.
C30_LoaderOutputInCompilerDomain ==
    LoaderReturned
    => LET capacity == result[1]
           weights == result[2]
           profits == result[3]
       IN  /\ weights # <<>> /\ profits # <<>>
           /\ Len(weights) = Len(profits)
           /\ \A i \in 1..Len(weights) : weights[i] >= 1
           /\ \E i \in 1..Len(weights) : capacity >= weights[i]
           /\ capacity >= 1
           /\ build_knapsack_with_aux(weights, profits, capacity, 1, 1).raised
              = "none"

\* the files 1 / 1, 1 / 1, 1 are let through, and the compiler builds the map
\* of two items and one auxiliary bit from them
C30_Witness ==
    /\ LoaderReturned
    /\ result = << 1, <<1, 1>>, <<1, 1>> >>
    /\ Cardinality(DOMAIN
          build_knapsack_with_aux(result[2], result[3], result[1], 1, 1).qubo)
       = 6

====
